---- MODULE Spec2Model ----
(***************************************************************************)
(* Model of hotnote's content-based text anchoring                         *)
(* (src/src/utils/text-anchor.js).                                         *)
(*                                                                         *)
(* A document is a sequence of one-character strings.  JavaScript offsets  *)
(* are 0-based and half-open, TLA+ sequences are 1-based: the JS slice     *)
(* doc.substring(a, b) is SubSeq(doc, a + 1, b).                           *)
(*                                                                         *)
(* findAnchorPosition is modelled step by step: one step for the call,     *)
(* one step per iteration of its `while (exec)` loop, and the rest of the  *)
(* function (the match-count tests, the scoring, the sort and the return)  *)
(* in the step of the iteration at which exec returns null.                *)
(*                                                                         *)
(* Scores are kept doubled (200 / 2 per char / 100 / 1 per char instead of *)
(* 100 / 1 / 50 / 0.5) so that they stay integers; the order of the scores *)
(* is the same.                                                            *)
(***************************************************************************)
EXTENDS Integers, Sequences, FiniteSets, TLC

\* ------------------------------------------------------------------ bounds
\* Longest enumerated document.
MaxDocLen == 4
\* Longest selection createAnchor is called with.
MaxSelLen == 4
\* Number of matches the `matches` array can hold before the engine gives up
\* (heap exhausted); larger than the number of matches of any scan that ends.
MaxMatches == 12
\* Longest document of the runs that are checked for termination.
MaxShortLen == 2
\* Most snapshots a file history holds in the runs of the history manager.
MaxSnapshots == 3
\* Most snapshots created in one run of the history manager.
MaxClock == 4

\* --------------------------------------------------------------- constants
CONTEXT_LENGTH == 32

\* Characters of the enumerated documents: an ordinary one and one that is
\* special in a regular expression.
Alphabet == {"a", "."}

SmallDocs == UNION {[1..n -> Alphabet] : n \in 0..MaxDocLen}

\* 'Hello world, this is a test document.'
HelloDoc ==
  <<"H", "e", "l", "l", "o", " ", "w", "o", "r", "l", "d", ",", " ", "t", "h",
    "i", "s", " ", "i", "s", " ", "a", " ", "t", "e", "s", "t", " ", "d", "o",
    "c", "u", "m", "e", "n", "t", ".">>

\* 'test one test two test three'
MultiDoc ==
  <<"t", "e", "s", "t", " ", "o", "n", "e", " ", "t", "e", "s", "t", " ", "t",
    "w", "o", " ", "t", "e", "s", "t", " ", "t", "h", "r", "e", "e">>

Docs == SmallDocs \cup {HelloDoc, MultiDoc}

\* ------------------------------------------------------------ JS built-ins
Min(a, b) == IF a < b THEN a ELSE b

Max(a, b) == IF a > b THEN a ELSE b

Clamp(n, len) == Min(Max(n, 0), len)

\* A mutant of Substring that drops the first character of the slice.
Substring_FromStart(str, start, end) ==
  LET s == Clamp(start, Len(str))
      e == Clamp(end, Len(str))
  IN  SubSeq(str, Min(s, e) + 2, Max(s, e))

\* String.prototype.substring: both ends clamped to [0, length], swapped
\* when start > end.
Substring(str, start, end) ==
  LET s == Clamp(start, Len(str))
      e == Clamp(end, Len(str))
  IN  SubSeq(str, Min(s, e) + 1, Max(s, e))

\* String.prototype.startsWith
StartsWith(str, search) ==
  /\ Len(search) <= Len(str)
  /\ SubSeq(str, 1, Len(search)) = search

\* String.prototype.endsWith
EndsWith(str, search) ==
  /\ Len(search) <= Len(str)
  /\ SubSeq(str, Len(str) - Len(search) + 1, Len(str)) = search

\* ------------------------------------------------------------- escapeRegex
\* The character class of escapeRegex: . * + ? ^ $ { } ( ) | [ ] \
RegexSpecial ==
  {".", "*", "+", "?", "^", "$", "{", "}", "(", ")", "|", "[", "]", "\\"}

\* A mutant of escapeRegex that escapes nothing.
escapeRegex_None(str) == str

RECURSIVE escapeRegex(_)
\* str.replace(/[.*+?^${}()|[\]\\]/g, '\\$&'): a backslash before every
\* special character.
escapeRegex(str) ==
  IF str = <<>> THEN <<>>
  ELSE (IF Head(str) \in RegexSpecial THEN <<"\\", Head(str)>>
        ELSE <<Head(str)>>) \o escapeRegex(Tail(str))

\* ---------------------------------------------------------------- RegExp
\* new RegExp(source, 'g') for the sources that arise here: a sequence of
\* atoms.  A backslash followed by a character is an identity escape and
\* matches that character; an unescaped "." matches any character (no
\* document here holds a line terminator); any other character matches
\* itself.
RECURSIVE RegExpCompile(_)
RegExpCompile(source) ==
  IF source = <<>> THEN <<>>
  ELSE IF Head(source) = "\\" /\ Len(source) >= 2
       THEN <<[kind |-> "lit", ch |-> source[2]]>>
              \o RegExpCompile(Tail(Tail(source)))
  ELSE IF Head(source) = "."
       THEN <<[kind |-> "any", ch |-> "."]>> \o RegExpCompile(Tail(source))
  ELSE <<[kind |-> "lit", ch |-> Head(source)]>> \o RegExpCompile(Tail(source))

AtomMatches(atom, c) == atom.kind = "any" \/ atom.ch = c

\* The pattern matches the document at 0-based index i.
MatchesAt(atoms, str, i) ==
  /\ i + Len(atoms) <= Len(str)
  /\ \A k \in 1..Len(atoms) : AtomMatches(atoms[k], str[i + k])

\* The 0-based indices at or after lastIndex where the pattern matches.
MatchIndices(atoms, str, lastIndex) ==
  {i \in lastIndex..Len(str) : MatchesAt(atoms, str, i)}

SetMin(S) == CHOOSE x \in S : \A y \in S : x <= y

\* A mutant of RegExpExec that starts one character too far.
RegExpExec_SkipOne(atoms, str, lastIndex) ==
  LET found == MatchIndices(atoms, str, lastIndex + 1)
  IN  IF found = {}
      THEN [matched |-> FALSE, index |-> 0, lastIndex |-> 0]
      ELSE [matched |-> TRUE, index |-> SetMin(found),
            lastIndex |-> SetMin(found) + Len(atoms)]

\* RegExp.prototype.exec of a global regex: the leftmost match at or after
\* lastIndex; on a match lastIndex becomes the END of the match (which is
\* the index itself for an empty match: exec does not step over an empty
\* match), on failure exec returns null and lastIndex becomes 0.
RegExpExec(atoms, str, lastIndex) ==
  LET found == MatchIndices(atoms, str, lastIndex)
  IN  IF found = {}
      THEN [matched |-> FALSE, index |-> 0, lastIndex |-> 0]
      ELSE [matched |-> TRUE, index |-> SetMin(found),
            lastIndex |-> SetMin(found) + Len(atoms)]

\* ----------------------------------------------------------- createAnchor
\* A mutant of createAnchor that does not limit the prefix.
createAnchor_NoLimit(d, from, to) ==
  [prefix |-> Substring(d, 0, from),
   exact  |-> Substring(d, from, to),
   suffix |-> Substring(d, to, Min(Len(d), to + CONTEXT_LENGTH))]

createAnchor(d, from, to) ==
  LET exact       == Substring(d, from, to)
      prefixStart == Max(0, from - CONTEXT_LENGTH)
      prefix      == Substring(d, prefixStart, from)
      suffixEnd   == Min(Len(d), to + CONTEXT_LENGTH)
      suffix      == Substring(d, to, suffixEnd)
  IN  [prefix |-> prefix, exact |-> exact, suffix |-> suffix]

\* ---------------------------------------------------------------- scoring
\* The number of iterations of `for (i = 0; i < minLen; i++)` that find
\* suffix[i] === actualSuffix[i] before the first mismatch.
LeadingMatch(suffix, actualSuffix) ==
  LET minLen == Min(Len(suffix), Len(actualSuffix))
  IN  SetMin({n \in 0..minLen :
                n = minLen \/ suffix[n + 1] # actualSuffix[n + 1]})

\* The number of iterations of `for (i = 1; i <= minLen; i++)` that find
\* prefix[length - i] === actualPrefix[length - i] before the first mismatch.
TrailingMatch(prefix, actualPrefix) ==
  LET minLen == Min(Len(prefix), Len(actualPrefix))
  IN  SetMin({n \in 0..minLen :
                n = minLen
                  \/ prefix[Len(prefix) - n] # actualPrefix[Len(actualPrefix) - n]})

\* A mutant of score that gives the exact prefix the weight of the exact
\* suffix and the exact suffix that of the exact prefix.
score_PrefixFirst(d, anchor, pos) ==
  LET actualPrefixStart == Max(0, pos.from - CONTEXT_LENGTH)
      actualPrefix      == Substring(d, actualPrefixStart, pos.from)
      actualSuffixEnd   == Min(Len(d), pos.to + CONTEXT_LENGTH)
      actualSuffix      == Substring(d, pos.to, actualSuffixEnd)
      suffixScore ==
        IF anchor.suffix # <<>> /\ StartsWith(actualSuffix, anchor.suffix)
        THEN 100
        ELSE IF anchor.suffix # <<>>
        THEN 2 * LeadingMatch(anchor.suffix, actualSuffix)
        ELSE 0
      prefixScore ==
        IF anchor.prefix # <<>> /\ EndsWith(actualPrefix, anchor.prefix)
        THEN 200
        ELSE IF anchor.prefix # <<>>
        THEN TrailingMatch(anchor.prefix, actualPrefix)
        ELSE 0
  IN  suffixScore + prefixScore

\* Twice the score the map callback gives the match pos.
score(d, anchor, pos) ==
  LET actualPrefixStart == Max(0, pos.from - CONTEXT_LENGTH)
      actualPrefix      == Substring(d, actualPrefixStart, pos.from)
      actualSuffixEnd   == Min(Len(d), pos.to + CONTEXT_LENGTH)
      actualSuffix      == Substring(d, pos.to, actualSuffixEnd)
      suffixScore ==
        IF anchor.suffix # <<>> /\ StartsWith(actualSuffix, anchor.suffix)
        THEN 200
        ELSE IF anchor.suffix # <<>>
        THEN 2 * LeadingMatch(anchor.suffix, actualSuffix)
        ELSE 0
      prefixScore ==
        IF anchor.prefix # <<>> /\ EndsWith(actualPrefix, anchor.prefix)
        THEN 100
        ELSE IF anchor.prefix # <<>>
        THEN TrailingMatch(anchor.prefix, actualPrefix)
        ELSE 0
  IN  suffixScore + prefixScore

scoredMatches(d, anchor, ms) ==
  [k \in 1..Len(ms) |->
     [from |-> ms[k].from, to |-> ms[k].to, score |-> score(d, anchor, ms[k])]]

\* Insert x into a sequence sorted by descending score, after every element
\* whose score is not lower (which keeps equal scores in their order).
RECURSIVE InsertByScore(_, _)
InsertByScore(sorted, x) ==
  IF sorted = <<>> THEN <<x>>
  ELSE IF Head(sorted).score >= x.score
       THEN <<Head(sorted)>> \o InsertByScore(Tail(sorted), x)
  ELSE <<x>> \o sorted

\* Array.prototype.sort((a, b) => b.score - a.score): a stable sort by
\* descending score.
RECURSIVE SortByScore(_)
SortByScore(ms) ==
  IF ms = <<>> THEN <<>>
  ELSE InsertByScore(SortByScore(SubSeq(ms, 1, Len(ms) - 1)), ms[Len(ms)])

\* The value findAnchorPosition returns for `null`.
Null == [from |-> -1, to |-> -1]

\* A mutant of Resolve that refuses to guess when the best score is zero.
Resolve_Threshold(d, anchor, ms) ==
  IF Len(ms) = 0 THEN Null
  ELSE IF Len(ms) = 1 THEN ms[1]
  ELSE LET bestMatch == SortByScore(scoredMatches(d, anchor, ms))[1]
       IN  IF bestMatch.score = 0 THEN Null
           ELSE [from |-> bestMatch.from, to |-> bestMatch.to]

\* findAnchorPosition after the scan: no match, the single match, or the
\* first of the matches sorted by score.
Resolve(d, anchor, ms) ==
  IF Len(ms) = 0 THEN Null
  ELSE IF Len(ms) = 1 THEN ms[1]
  ELSE LET bestMatch == SortByScore(scoredMatches(d, anchor, ms))[1]
       IN  [from |-> bestMatch.from, to |-> bestMatch.to]

\* -------------------------------------------------------- history manager
\* The history manager (src/storage/history-manager.js in the repository) is
\* modelled from its specification.  `histories` is the Map from file path
\* to FileHistory; a file without an entry has the history of a new
\* FileHistory.  currentIndex is 0-based as in the program, so the current
\* snapshot is snapshots[currentIndex + 1] here.  Timestamps are the values
\* of a clock that advances with every snapshot taken.
Files == {"a.md", "b.md"}

Contents == {"x", "y"}

Cursors == {[line |-> 0, column |-> 0]}

Scrolls == {[top |-> 0, left |-> 0]}

\* new Snapshot(content, timestamp, cursor, scroll)
Snapshot(content, timestamp, cursor, scroll) ==
  [content |-> content, timestamp |-> timestamp,
   cursor |-> cursor, scroll |-> scroll]

\* The `null` that undo and redo return.
NullSnapshot ==
  [content |-> "", timestamp |-> -1,
   cursor |-> [line |-> -1, column |-> -1], scroll |-> [top |-> -1, left |-> -1]]

\* new FileHistory()
NewFileHistory == [snapshots |-> <<>>, currentIndex |-> -1]

\* new Map()
NoHistories == [f \in {} |-> NewFileHistory]

\* The history of a file path: its entry, or an empty history.
getHistory(hs, filePath) ==
  IF filePath \in DOMAIN hs THEN hs[filePath] ELSE NewFileHistory

\* histories.set(filePath, h)
setHistory(hs, filePath, h) ==
  [f \in DOMAIN hs \cup {filePath} |-> IF f = filePath THEN h ELSE hs[f]]

\* The snapshots that are discarded when a snapshot is created after an undo.
discarded(h) == Len(h.snapshots) - (h.currentIndex + 1)

\* A mutant of createSnapshot that keeps the snapshots after currentIndex.
createSnapshot_NoTruncate(hs, filePath, snap) ==
  LET h     == getHistory(hs, filePath)
      snaps == Append(h.snapshots, snap)
  IN  setHistory(hs, filePath,
                 [snapshots |-> snaps, currentIndex |-> Len(snaps) - 1])

\* A mutant of createSnapshot that puts the new snapshot first.
createSnapshot_Prepend(hs, filePath, snap) ==
  LET h     == getHistory(hs, filePath)
      snaps == <<snap>> \o SubSeq(h.snapshots, 1, h.currentIndex + 1)
  IN  setHistory(hs, filePath,
                 [snapshots |-> snaps, currentIndex |-> Len(snaps) - 1])

\* createSnapshot: discard the snapshots after currentIndex, append, and
\* point currentIndex at the new snapshot.
createSnapshot(hs, filePath, snap) ==
  LET h     == getHistory(hs, filePath)
      kept  == IF h.currentIndex < Len(h.snapshots) - 1
               THEN SubSeq(h.snapshots, 1, h.currentIndex + 1)
               ELSE h.snapshots
      snaps == Append(kept, snap)
  IN  setHistory(hs, filePath,
                 [snapshots |-> snaps, currentIndex |-> Len(snaps) - 1])

\* A mutant of undo without the test for the earliest snapshot.
undo_NoGuard(hs, filePath) ==
  LET h == getHistory(hs, filePath)
  IN  [histories |-> setHistory(hs, filePath,
                                [h EXCEPT !.currentIndex = @ - 1]),
       ret |-> IF h.currentIndex >= 1 THEN h.snapshots[h.currentIndex]
               ELSE NullSnapshot]

\* A mutant of undo that returns the snapshot it moved away from.
undo_ReturnOld(hs, filePath) ==
  LET h == getHistory(hs, filePath)
  IN  IF h.currentIndex <= 0
      THEN [histories |-> hs, ret |-> NullSnapshot]
      ELSE [histories |-> setHistory(hs, filePath,
                                     [h EXCEPT !.currentIndex = @ - 1]),
            ret |-> h.snapshots[h.currentIndex + 1]]

\* undo: null at the earliest snapshot (or without snapshots), else one step
\* back and the snapshot now pointed to.
undo(hs, filePath) ==
  LET h == getHistory(hs, filePath)
  IN  IF h.currentIndex <= 0
      THEN [histories |-> hs, ret |-> NullSnapshot]
      ELSE [histories |-> setHistory(hs, filePath,
                                     [h EXCEPT !.currentIndex = @ - 1]),
            ret |-> h.snapshots[h.currentIndex]]

\* A mutant of redo that tests currentIndex against the length.
redo_OffByOne(hs, filePath) ==
  LET h == getHistory(hs, filePath)
  IN  IF h.currentIndex >= Len(h.snapshots)
      THEN [histories |-> hs, ret |-> NullSnapshot]
      ELSE [histories |-> setHistory(hs, filePath,
                                     [h EXCEPT !.currentIndex = @ + 1]),
            ret |-> IF h.currentIndex + 2 <= Len(h.snapshots)
                    THEN h.snapshots[h.currentIndex + 2] ELSE NullSnapshot]

\* redo: null at the latest snapshot (or without snapshots), else one step
\* forward and the snapshot now pointed to.
redo(hs, filePath) ==
  LET h == getHistory(hs, filePath)
  IN  IF h.currentIndex >= Len(h.snapshots) - 1
      THEN [histories |-> hs, ret |-> NullSnapshot]
      ELSE [histories |-> setHistory(hs, filePath,
                                     [h EXCEPT !.currentIndex = @ + 1]),
            ret |-> h.snapshots[h.currentIndex + 2]]

\* A mutant of clearHistory that clears every file.
clearHistory_All(hs, filePath) == NoHistories

\* A mutant of clearHistory that empties the list and keeps the index.
clearHistory_KeepIndex(hs, filePath) ==
  IF filePath \in DOMAIN hs
  THEN [hs EXCEPT ![filePath].snapshots = <<>>]
  ELSE hs

\* clearHistory: the entry of the file is removed.
clearHistory(hs, filePath) == [f \in DOMAIN hs \ {filePath} |-> hs[f]]

\* clearAllHistories: every entry is removed.
clearAllHistories(hs) == NoHistories

canUndo(hs, filePath) == getHistory(hs, filePath).currentIndex > 0

canRedo(hs, filePath) ==
  LET h == getHistory(hs, filePath)
  IN  h.currentIndex < Len(h.snapshots) - 1

\* A mutant of shouldSnapshot that snapshots at every tick.
shouldSnapshot_Always(hs, filePath, content) == TRUE

\* The test of a timer tick: the content differs from the content of the
\* most recent snapshot of the file (or the file has no snapshot).
shouldSnapshot(hs, filePath, content) ==
  LET h == getHistory(hs, filePath)
  IN  \/ h.snapshots = <<>>
      \/ h.snapshots[Len(h.snapshots)].content # content

\* A mutant of clearInterval that cancels nothing.
clearInterval_Nothing(scheduled, handle) == scheduled

\* clearInterval(handle): the interval of a live handle stops being
\* scheduled; handle is TRUE for a handle and FALSE for null.
clearInterval(scheduled, handle) ==
  IF handle THEN scheduled - 1 ELSE scheduled

\* ------------------------------------------------------------------ state
VARIABLES
  doc,        \* the current text of the document
  anchor,     \* the anchor stored with the comment
  origin,     \* the document and the range the anchor was created from
  pc,         \* "idle", "anchored", "scan", "done" or "exhausted"
  lastIndex,  \* exactRegex.lastIndex
  matches,    \* the matches array of the running findAnchorPosition
  result      \* what the last findAnchorPosition returned

avars == <<doc, anchor, origin, pc, lastIndex, matches, result>>

VARIABLES
  histories,        \* HistoryManager.histories: file path -> FileHistory
  timer,            \* HistoryManager.timer is a handle (TRUE) or null (FALSE)
  scheduled,        \* number of snapshot intervals scheduled in the event loop
  now,              \* the clock the snapshot timestamps are read from
  ret,              \* what the last undo or redo returned
  lastOp,           \* the last call: its name, file path and what it did
  run,              \* file path -> the snapshots created since the history
                    \*   was last empty, while no undo or redo was called
  prevTick,         \* what the accessor returned at the previous tick
  quiet,            \* no createSnapshot or clear on that file since that tick
  autosaveEnabled,  \* app.js autosaveEnabled
  autosaveInterval,  \* app.js autosaveInterval is a handle (TRUE) or null
  autosaveScheduled  \* number of autosave intervals scheduled in the event loop

hvars == <<histories, timer, scheduled, now, ret, lastOp, run, prevTick, quiet,
           autosaveEnabled, autosaveInterval, autosaveScheduled>>

VARIABLES
  sessionData,  \* the session object the comment functions are called on
  cret,         \* what the last comment function returned
  cLastOp,      \* the last comment call: its name, arguments and the
                \*   comments array it found
  disk,         \* directory handle -> its .session_properties.HN file
  appState,     \* appState: currentDirHandle, rootDirHandle, currentFileHandle
  stime,        \* the clock Date.now() reads
  sresult,      \* how the last session-file promise settled
  sLastOp       \* the last session-file call and what it found on disk

svars == <<sessionData, cret, cLastOp, disk, appState, stime, sresult, sLastOp>>

VARIABLES
  localStorage,  \* the value under hotnote_user_id, or "null"
  uuidCalls,     \* calls of crypto.randomUUID since the last clearUserData
  seenIds,       \* what getUserId returned since the last clearUserData
  uret,          \* what the last getUserId returned
  uLastOp        \* the last user-manager call and what it did

uvars == <<localStorage, uuidCalls, seenIds, uret, uLastOp>>

VARIABLES
  currentPath,        \* app.js currentPath: the directory handles from the root
  currentDirHandle,   \* app.js currentDirHandle
  currentFileHandle,  \* app.js currentFileHandle
  currentFilename,    \* app.js currentFilename
  navigationHistory,  \* app.js navigationHistory
  historyIndex,       \* app.js historyIndex, 0-based as in the code
  isDirty,            \* app.js isDirty
  originalContent,    \* app.js originalContent
  isRichMode,         \* app.js isRichMode
  editor,             \* the active editor (CodeMirror or Milkdown) and its text
  tempStorage,        \* localStorage under TEMP_STORAGE_PREFIX: key -> text
  diskFiles,          \* the content of the files on disk
  tasks,              \* the handlers that wait for file I/O, with their locals
  buttons,            \* the disabled property of back-btn, forward-btn and
                      \*   folder-up-btn
  nLastOp             \* the last handler step: its name, and the temp key,
                      \*   historyIndex and history length it met

nvars == <<currentPath, currentDirHandle, currentFileHandle, currentFilename,
           navigationHistory, historyIndex, isDirty, originalContent,
           isRichMode, editor, tempStorage, diskFiles, tasks, buttons, nLastOp>>

VARIABLES
  request,     \* callOllama's arguments and the URL it sent the request to,
               \*   or NoRequest
  opc,         \* where the call is: "idle", "fetch" (await fetch),
               \*   "json" (await response.json()), "returned" or "rejected"
  elapsed,     \* time since the call, in units of the timeout's resolution
  timeoutId,   \* the timer set by setTimeout is pending
  aborted,     \* controller.signal.aborted
  outcome      \* the value callOllama returned or the error it threw

ovars == <<request, opc, elapsed, timeoutId, aborted, outcome>>

xvars == <<svars, uvars, nvars, ovars>>

vars == <<avars, hvars, xvars>>

\* ------------------------------------------------- session store: the data
\* The comments array holds at most MaxComments comments and Date.now()
\* returns at most MaxSessionClock.
MaxComments == 3

MaxSessionClock == 2

\* A handle or a value that is null.
NoHandle == "null"

\* The project root and one of its subdirectories, named by their paths.
RootDir == "root"

SubDir == "root/src"

Dirs == {RootDir, SubDir}

\* FileSystemDirectoryHandle.name
DirName(d) == IF d = RootDir THEN "root" ELSE "src"

\* The files the editor can have open, named by their paths relative to the
\* root, and the directory each one is in.
SessionFiles == {"README.md", "src/app.js"}

DirOf(f) == IF f = "README.md" THEN RootDir ELSE SubDir

CommentIds == {"c1", "c2"}

\* Two values of the {prefix, exact, suffix} record.
CommentAnchors == {"A1", "A2"}

CommentKeys == {"id", "anchor", "resolved"}

Comments == [id : CommentIds, anchor : CommentAnchors, resolved : BOOLEAN]

\* The update objects: any subset of a comment's properties, any values.
Updates == {[k \in D |-> c[k]] : c \in Comments, D \in SUBSET CommentKeys}

NoLastOpenFile ==
  [isNull |-> TRUE, path |-> "", cursorLine |-> 0, cursorColumn |-> 0,
   scrollTop |-> 0, scrollLeft |-> 0, editorMode |-> ""]

\* createEmptySession(folderName), its Date.now() read as t.  comments is
\* the array, with `defined` FALSE when the object has no comments property.
createEmptySession(folderName, t) ==
  [version |-> "1.0",
   folderName |-> folderName,
   lastModified |-> t,
   session |-> [lastOpenFile |-> NoLastOpenFile],
   comments |-> [defined |-> TRUE, list |-> <<>>]]

NoSession == createEmptySession("", 0)

\* A session file is missing, holds text that is not JSON, or holds the JSON
\* of a session object.
MissingFile == [state |-> "missing", data |-> NoSession]

InvalidFile == [state |-> "invalid", data |-> NoSession]

JsonFile(sessionObject) == [state |-> "json", data |-> sessionObject]

\* A promise that resolved with null, with a session object, with undefined
\* or that rejected.
ResolvedNull == [outcome |-> "resolved", isNull |-> TRUE, data |-> NoSession]

Resolved(sessionObject) ==
  [outcome |-> "resolved", isNull |-> FALSE, data |-> sessionObject]

Rejected == [outcome |-> "rejected", isNull |-> TRUE, data |-> NoSession]

NoAppState ==
  [currentDirHandle |-> NoHandle, rootDirHandle |-> NoHandle,
   currentFileHandle |-> NoHandle]

NoCommentOp ==
  [op |-> "none", id |-> "", before |-> [defined |-> TRUE, list |-> <<>>]]

NoSessionOp ==
  [op |-> "none", dir |-> NoHandle, loadFault |-> "none", fault |-> "none",
   found |-> "missing", wrote |-> FALSE]

\* No comment function has been called.
CommentStoreIdle ==
  /\ sessionData = NoSession
  /\ cret = FALSE
  /\ cLastOp = NoCommentOp

\* No session file has been read or written.
SessionFileIdle ==
  /\ disk = [d \in Dirs |-> MissingFile]
  /\ appState = NoAppState
  /\ stime = 0
  /\ sresult = ResolvedNull
  /\ sLastOp = NoSessionOp

\* --------------------------------------------------- user manager: the data
USER_ID_KEY == "hotnote_user_id"

USER_NAME_KEY == "hotnote_user_name"

\* The values crypto.randomUUID can return.
UUIDs == {"uuid-1", "uuid-2", "uuid-3", "uuid-4"}

\* The names setUserDisplayName is called with: "" and " " are not stored.
DisplayNames == {"Ann", "Bob", " ", ""}

NoUserOp == [op |-> "none", afterClear |-> FALSE]

NoStorage == [k \in {USER_ID_KEY, USER_NAME_KEY} |-> "null"]

\* localStorage[key] is the stored string, or "null" when the key is absent.
\* No function of the user manager has been called in this page.
UserIdle ==
  /\ localStorage = NoStorage
  /\ uuidCalls = 0
  /\ seenIds = {}
  /\ uret = "null"
  /\ uLastOp = NoUserOp

\* ----------------------------------------------------- navigation: the data
MaxHistory == 4

MaxPending == 2

\* The files of the project, both in the root, named by their paths.
NavFiles == {"root/a.txt", "root/b.md"}

\* File.name
FileName(fileHandle) == IF fileHandle = "root/a.txt" THEN "a.txt" ELSE "b.md"

ParentDir(fileHandle) == RootDir

\* What the files hold on disk when the page loads.
DiskContent(fileHandle) == IF fileHandle = "root/a.txt" THEN "a0" ELSE "b0"

\* What the user types.
EditContents == {"e1", "e2"}

\* currentPath is the sequence of directories from the root to the one shown.
Paths == {<<RootDir>>, <<RootDir, SubDir>>}

PathOf(dirHandle) ==
  IF dirHandle = RootDir THEN <<RootDir>> ELSE <<RootDir, SubDir>>

\* The values of currentFilename.
Filenames == {"a.txt", "b.md", "", "untitled"}

\* getFilePathKey(): the names of currentPath and currentFilename joined with
\* "/"; a key is kept as the pair of the path and the filename, and NoKey is
\* the null it returns when no file is open.
PathKeys == (Paths \cup {<<>>}) \X Filenames

NoKey == <<>>

NullContent == "null"

NoTempStorage == [key \in PathKeys |-> NullContent]

\* updateNavigationButtons() at startup: nothing to go back, forward or up to.
NoButtons == [back |-> TRUE, forward |-> TRUE, up |-> TRUE]

NoNavOp ==
  [op |-> "none", step |-> "none", key |-> NoKey, index |-> -1, length |-> 0]

\* app.js after loading: initEditor() has created an empty CodeMirror editor.
AppInit ==
  /\ currentPath = <<>>
  /\ currentDirHandle = NoHandle
  /\ currentFileHandle = NoHandle
  /\ currentFilename = "untitled"
  /\ navigationHistory = <<>>
  /\ historyIndex = -1
  /\ isDirty = FALSE
  /\ originalContent = ""
  /\ isRichMode = FALSE
  /\ editor = [kind |-> "codemirror", content |-> ""]
  /\ tempStorage = NoTempStorage
  /\ diskFiles = [fileHandle \in NavFiles |-> DiskContent(fileHandle)]
  /\ tasks = <<>>
  /\ buttons = NoButtons
  /\ nLastOp = NoNavOp

\* No request to the Ollama server has been made.
NoRequest == [endpoint |-> <<>>, timeout |-> 0, url |-> <<>>]

OllamaIdle ==
  /\ request = NoRequest
  /\ opc = "idle"
  /\ elapsed = 0
  /\ timeoutId = FALSE
  /\ aborted = FALSE
  /\ outcome = "none"

\* The components other than the anchor resolver and the history manager
\* are not in use.
RestIdle ==
  CommentStoreIdle /\ SessionFileIdle /\ UserIdle /\ AppInit /\ OllamaIdle

NoOp == [op |-> "none", file |-> "", n |-> 0, tag |-> ""]

NoTick == [file |-> "", content |-> ""]

CleanRun == [f \in Files |-> [clean |-> TRUE, snaps |-> <<>>]]

\* The history manager after construction and app.js after loading.
HistoryInit ==
  /\ histories = NoHistories
  /\ timer = FALSE
  /\ scheduled = 0
  /\ now = 0
  /\ ret = NullSnapshot
  /\ lastOp = NoOp
  /\ run = CleanRun
  /\ prevTick = NoTick
  /\ quiet = FALSE
  /\ autosaveEnabled = FALSE
  /\ autosaveInterval = FALSE
  /\ autosaveScheduled = 0

NoAnchor == [prefix |-> <<>>, exact |-> <<>>, suffix |-> <<>>]

NoOrigin == [doc |-> <<>>, from |-> 0, to |-> 0]

Init ==
  /\ doc \in Docs
  /\ anchor = NoAnchor
  /\ origin = NoOrigin
  /\ pc = "idle"
  /\ lastIndex = 0
  /\ matches = <<>>
  /\ result = Null
  /\ HistoryInit
  /\ RestIdle

\* A comment is attached to the range [from, to) of the document.
CreateAnchor(from, to) ==
  /\ pc = "idle"
  /\ anchor' = createAnchor(doc, from, to)
  /\ origin' = [doc |-> doc, from |-> from, to |-> to]
  /\ pc' = "anchored"
  /\ UNCHANGED <<doc, lastIndex, matches, result>>
  /\ UNCHANGED <<hvars, xvars>>

\* The user edits the document between two resolutions of the anchor; the
\* position found before the edit is stale ("done" means that result is what
\* findAnchorPosition returned for the current doc and anchor).
EditDoc(d) ==
  /\ pc \in {"anchored", "done"}
  /\ d # doc
  /\ doc' = d
  /\ pc' = "anchored"
  /\ UNCHANGED <<anchor, origin, lastIndex, matches, result>>
  /\ UNCHANGED <<hvars, xvars>>

\* findAnchorPosition(doc, anchor) is called on an empty document.
FindEmptyDoc ==
  /\ pc \in {"anchored", "done"}
  /\ Len(doc) = 0
  /\ result' = Null
  /\ pc' = "done"
  /\ lastIndex' = 0
  /\ matches' = <<>>
  /\ UNCHANGED <<doc, anchor, origin>>
  /\ UNCHANGED <<hvars, xvars>>

\* findAnchorPosition(doc, anchor) is called on a non-empty document: the
\* regex is built (lastIndex 0) and the matches array is empty.
FindStart ==
  /\ pc \in {"anchored", "done"}
  /\ Len(doc) # 0
  /\ pc' = "scan"
  /\ lastIndex' = 0
  /\ matches' = <<>>
  /\ UNCHANGED <<doc, anchor, origin, result>>
  /\ UNCHANGED <<hvars, xvars>>

exactRegex == RegExpCompile(escapeRegex(anchor.exact))

\* An iteration of the while loop in which exec finds a match.
ExecMatch ==
  /\ pc = "scan"
  /\ LET m == RegExpExec(exactRegex, doc, lastIndex)
     IN  /\ m.matched
         /\ Len(matches) < MaxMatches
         /\ matches' = Append(matches, [from |-> m.index,
                                        to   |-> m.index + Len(anchor.exact)])
         /\ lastIndex' = m.lastIndex
  /\ UNCHANGED <<doc, anchor, origin, pc, result>>
  /\ UNCHANGED <<hvars, xvars>>

\* exec finds one more match when the matches array cannot grow any more:
\* the engine aborts the call (out of memory) and no value is returned.
\* Only a loop that would never end gets here: a scan that ends makes at
\* most Len(doc) matches, fewer than MaxMatches for every document of Docs.
ExecExhaust ==
  /\ pc = "scan"
  /\ RegExpExec(exactRegex, doc, lastIndex).matched
  /\ Len(matches) = MaxMatches
  /\ pc' = "exhausted"
  /\ UNCHANGED <<doc, anchor, origin, lastIndex, matches, result>>
  /\ UNCHANGED <<hvars, xvars>>

\* exec returns null: the loop ends and the function returns.
ExecEndReturn ==
  /\ pc = "scan"
  /\ LET m == RegExpExec(exactRegex, doc, lastIndex)
     IN  /\ ~m.matched
         /\ lastIndex' = m.lastIndex
  /\ result' = Resolve(doc, anchor, matches)
  /\ pc' = "done"
  /\ UNCHANGED <<doc, anchor, origin, matches>>
  /\ UNCHANGED <<hvars, xvars>>

\* createAnchor is called with a range of the document.
AttachComment ==
  \E from \in 0..Len(doc) :
    \E to \in from..Min(Len(doc), from + MaxSelLen) : CreateAnchor(from, to)

\* The document becomes any other document.
Edit == \E d \in Docs : EditDoc(d)

Next ==
  \/ AttachComment
  \/ Edit
  \/ FindEmptyDoc
  \/ FindStart
  \/ ExecMatch
  \/ ExecExhaust
  \/ ExecEndReturn

Spec == Init /\ [][Next]_vars

\* The same calls on short documents only, with the fairness of a
\* synchronous call: JavaScript runs findAnchorPosition to completion, so a
\* step of the call that is ready is taken.
ShortDocs == {d \in SmallDocs : Len(d) <= MaxShortLen}

ScanInit == Init /\ doc \in ShortDocs

EditShort == \E d \in ShortDocs : EditDoc(d)

ScanNext ==
  \/ AttachComment
  \/ EditShort
  \/ FindEmptyDoc
  \/ FindStart
  \/ ExecMatch
  \/ ExecExhaust
  \/ ExecEndReturn

ScanSpec == ScanInit /\ [][ScanNext]_vars /\ WF_vars(ScanNext)

\* ------------------------------------------------- history manager: calls
\* The anchor resolver is not in use.
AnchorIdle ==
  /\ doc = <<>>
  /\ anchor = NoAnchor
  /\ origin = NoOrigin
  /\ pc = "idle"
  /\ lastIndex = 0
  /\ matches = <<>>
  /\ result = Null

HistoryManagerInit == AnchorIdle /\ HistoryInit /\ RestIdle

\* What createSnapshot does to the record of a file's uninterrupted run of
\* snapshots.
runAfterCreate(filePath, snap) ==
  [run EXCEPT ![filePath] =
     IF @.clean THEN [clean |-> TRUE, snaps |-> Append(@.snaps, snap)] ELSE @]

runAfterMove(filePath) ==
  [run EXCEPT ![filePath] = [clean |-> FALSE, snaps |-> <<>>]]

\* There is room for one more snapshot of the file.
Room(filePath) ==
  /\ now < MaxClock
  /\ getHistory(histories, filePath).currentIndex + 1 < MaxSnapshots

\* createSnapshot(filePath, content, cursor, scroll)
CreateSnapshot(filePath, content, cursor, scroll) ==
  /\ Room(filePath)
  /\ LET snap == Snapshot(content, now + 1, cursor, scroll)
     IN  /\ histories' = createSnapshot(histories, filePath, snap)
         /\ run' = runAfterCreate(filePath, snap)
  /\ now' = now + 1
  /\ lastOp' = [op |-> "createSnapshot", file |-> filePath,
                n |-> discarded(getHistory(histories, filePath)), tag |-> ""]
  /\ quiet' = (quiet /\ prevTick.file # filePath)
  /\ UNCHANGED <<timer, scheduled, ret, prevTick, autosaveEnabled,
                 autosaveInterval, autosaveScheduled>>
  /\ UNCHANGED <<avars, xvars>>

\* undo(filePath)
Undo(filePath) ==
  /\ LET r == undo(histories, filePath)
     IN  /\ histories' = r.histories
         /\ ret' = r.ret
         /\ lastOp' = [op |-> "undo", file |-> filePath,
                       n |-> IF r.ret = NullSnapshot THEN 0 ELSE 1, tag |-> ""]
  /\ run' = runAfterMove(filePath)
  /\ UNCHANGED <<timer, scheduled, now, prevTick, quiet, autosaveEnabled,
                 autosaveInterval, autosaveScheduled>>
  /\ UNCHANGED <<avars, xvars>>

\* redo(filePath)
Redo(filePath) ==
  /\ LET r == redo(histories, filePath)
     IN  /\ histories' = r.histories
         /\ ret' = r.ret
         /\ lastOp' = [op |-> "redo", file |-> filePath,
                       n |-> IF r.ret = NullSnapshot THEN 0 ELSE 1, tag |-> ""]
  /\ run' = runAfterMove(filePath)
  /\ UNCHANGED <<timer, scheduled, now, prevTick, quiet, autosaveEnabled,
                 autosaveInterval, autosaveScheduled>>
  /\ UNCHANGED <<avars, xvars>>

\* clearHistory(filePath)
ClearHistory(filePath) ==
  /\ histories' = clearHistory(histories, filePath)
  /\ lastOp' = [op |-> "clearHistory", file |-> filePath,
                n |-> Len(getHistory(histories, filePath).snapshots),
                tag |-> ""]
  /\ run' = [run EXCEPT ![filePath] = [clean |-> TRUE, snaps |-> <<>>]]
  /\ quiet' = (quiet /\ prevTick.file # filePath)
  /\ UNCHANGED <<timer, scheduled, now, ret, prevTick, autosaveEnabled,
                 autosaveInterval, autosaveScheduled>>
  /\ UNCHANGED <<avars, xvars>>

\* clearAllHistories()
ClearAllHistories ==
  /\ histories' = clearAllHistories(histories)
  /\ lastOp' = [op |-> "clearAllHistories", file |-> "",
                n |-> Cardinality(DOMAIN histories), tag |-> ""]
  /\ run' = CleanRun
  /\ quiet' = FALSE
  /\ UNCHANGED <<timer, scheduled, now, ret, prevTick, autosaveEnabled,
                 autosaveInterval, autosaveScheduled>>
  /\ UNCHANGED <<avars, xvars>>

\* startSnapshotTimer(getCurrentFileState): the interval begins (an interval
\* that is still running is replaced).
StartSnapshotTimer ==
  /\ scheduled' = clearInterval(scheduled, timer) + 1
  /\ timer' = TRUE
  /\ lastOp' = [op |-> "startSnapshotTimer", file |-> "",
                n |-> IF timer THEN 1 ELSE 0, tag |-> ""]
  /\ prevTick' = NoTick
  /\ quiet' = FALSE
  /\ UNCHANGED <<histories, now, ret, run, autosaveEnabled, autosaveInterval,
                 autosaveScheduled>>
  /\ UNCHANGED <<avars, xvars>>

\* stopSnapshotTimer(): the interval is cancelled; nothing to do without one.
StopSnapshotTimer ==
  /\ scheduled' = clearInterval(scheduled, timer)
  /\ timer' = FALSE
  /\ lastOp' = [op |-> "stopSnapshotTimer", file |-> "",
                n |-> IF timer THEN 1 ELSE 0, tag |-> ""]
  /\ prevTick' = NoTick
  /\ quiet' = FALSE
  /\ UNCHANGED <<histories, now, ret, run, autosaveEnabled, autosaveInterval,
                 autosaveScheduled>>
  /\ UNCHANGED <<avars, xvars>>

\* A tick of a scheduled interval: the accessor returns {filePath, content,
\* cursor, scroll} and a snapshot is created if the content differs from the
\* most recent snapshot's.
TimerTick(filePath, content, cursor, scroll) ==
  /\ scheduled > 0
  /\ IF shouldSnapshot(histories, filePath, content)
     THEN /\ Room(filePath)
          /\ LET snap == Snapshot(content, now + 1, cursor, scroll)
             IN  /\ histories' = createSnapshot(histories, filePath, snap)
                 /\ run' = runAfterCreate(filePath, snap)
          /\ now' = now + 1
     ELSE UNCHANGED <<histories, run, now>>
  /\ lastOp' = [op |-> "tick", file |-> filePath,
                n |-> IF shouldSnapshot(histories, filePath, content)
                      THEN 1 ELSE 0,
                tag |-> IF prevTick = [file |-> filePath, content |-> content]
                        THEN (IF quiet THEN "idle" ELSE "same") ELSE "new"]
  /\ prevTick' = [file |-> filePath, content |-> content]
  /\ quiet' = TRUE
  /\ UNCHANGED <<timer, scheduled, ret, autosaveEnabled, autosaveInterval,
                 autosaveScheduled>>
  /\ UNCHANGED <<avars, xvars>>

\* A startAutosave that does not clear the interval that runs.
startAutosave_NoClear(handle, intervals) ==
  [autosaveInterval |-> TRUE, autosaveScheduled |-> intervals + 1]

\* app.js startAutosave(): an interval that runs is cleared and a new one is
\* scheduled.
startAutosave(handle, intervals) ==
  [autosaveInterval |-> TRUE,
   autosaveScheduled |-> clearInterval(intervals, handle) + 1]

\* app.js stopAutosave(): the interval is cleared and the handle dropped;
\* nothing to do without one.
stopAutosave(handle, intervals) ==
  IF handle
  THEN [autosaveInterval |-> FALSE,
        autosaveScheduled |-> clearInterval(intervals, handle)]
  ELSE [autosaveInterval |-> handle, autosaveScheduled |-> intervals]

\* app.js toggleAutosave(enabled): startAutosave replaces the autosave
\* interval, stopAutosave clears it; neither calls the history manager.
toggleAutosave(enabled) ==
  /\ autosaveEnabled' = enabled
  /\ LET timers == IF enabled
                   THEN startAutosave(autosaveInterval, autosaveScheduled)
                   ELSE stopAutosave(autosaveInterval, autosaveScheduled)
     IN  /\ autosaveInterval' = timers.autosaveInterval
         /\ autosaveScheduled' = timers.autosaveScheduled
  /\ lastOp' = [op |-> "toggleAutosave", file |-> "", n |-> 0,
                tag |-> IF enabled THEN "on" ELSE "off"]
  /\ UNCHANGED <<histories, timer, scheduled, now, ret, run, prevTick, quiet>>
  /\ UNCHANGED <<avars, xvars>>

CallCreateSnapshot ==
  \E f \in Files, c \in Contents, cur \in Cursors, scr \in Scrolls :
    CreateSnapshot(f, c, cur, scr)

CallUndo == \E f \in Files : Undo(f)

CallRedo == \E f \in Files : Redo(f)

CallClearHistory == \E f \in Files : ClearHistory(f)

Tick ==
  \E f \in Files, c \in Contents, cur \in Cursors, scr \in Scrolls :
    TimerTick(f, c, cur, scr)

AutosaveCheckbox == \E enabled \in BOOLEAN : toggleAutosave(enabled)

HistoryManagerNext ==
  \/ CallCreateSnapshot
  \/ CallUndo
  \/ CallRedo
  \/ CallClearHistory
  \/ ClearAllHistories
  \/ StartSnapshotTimer
  \/ StopSnapshotTimer
  \/ Tick
  \/ AutosaveCheckbox

HistoryManagerSpec == HistoryManagerInit /\ [][HistoryManagerNext]_vars

\* ----------------------------------------------------------------- claims
\* The 0-based indices i with d[i : i + len(exact)] = exact, overlapping
\* occurrences included.
Occurrences(d, exact) ==
  {i \in 0..(Len(d) - Len(exact)) : SubSeq(d, i + 1, i + Len(exact)) = exact}

PosAt(i) == [from |-> i, to |-> i + Len(anchor.exact)]

\* The text around the occurrence at i equals the stored prefix and suffix.
ContextMatches(i) ==
  /\ i >= Len(anchor.prefix)
  /\ SubSeq(doc, i - Len(anchor.prefix) + 1, i) = anchor.prefix
  /\ i + Len(anchor.exact) + Len(anchor.suffix) <= Len(doc)
  /\ SubSeq(doc, i + Len(anchor.exact) + 1,
            i + Len(anchor.exact) + Len(anchor.suffix)) = anchor.suffix

\* C1: round trip.  When findAnchorPosition has returned for the document
\* the anchor was created from, the result is the range the anchor was
\* created for.
C1_RoundTrip ==
  (pc = "done" /\ doc = origin.doc)
    => result = [from |-> origin.from, to |-> origin.to]

\* C2 as claimed: when exact occurs at exactly one index of the document,
\* findAnchorPosition returns that occurrence.
C2_SingleOccurrence ==
  (pc = "done" /\ Cardinality(Occurrences(doc, anchor.exact)) = 1)
    => \E i \in Occurrences(doc, anchor.exact) : result = PosAt(i)

\* C2 as amended: when exact occurs at exactly one index of a non-empty
\* document, findAnchorPosition returns that occurrence, whatever the stored
\* prefix and suffix are.
C2_SingleOccurrenceNonEmptyDoc ==
  (pc = "done" /\ Len(doc) # 0
     /\ Cardinality(Occurrences(doc, anchor.exact)) = 1)
    => \E i \in Occurrences(doc, anchor.exact) : result = PosAt(i)

\* C2 witness: a single occurrence is returned although neither the text
\* before it nor the text after it matches the stored context.
C2_Witness ==
  /\ pc = "done"
  /\ Len(doc) # 0
  /\ Cardinality(Occurrences(doc, anchor.exact)) = 1
  /\ anchor.prefix # <<>>
  /\ anchor.suffix # <<>>
  /\ result # Null
  /\ ~EndsWith(Substring(doc, 0, result.from), anchor.prefix)
  /\ ~StartsWith(Substring(doc, result.to, Len(doc)), anchor.suffix)

C4_Terminates == (pc = "scan") ~> (pc = "done")

\* C5: for a non-empty document, the candidates findAnchorPosition has
\* collected when it returns are all the indices where exact occurs
\* literally, overlapping occurrences included.
C5_CandidatesAreAllOccurrences ==
  (pc = "done" /\ Len(doc) # 0)
    => {matches[k].from : k \in 1..Len(matches)}
         = Occurrences(doc, anchor.exact)

\* C6: when exact occurs more than once, the returned occurrence has the
\* highest context score of all occurrences and is the first of those that
\* have it.
C6_BestScoreFirstIndex ==
  (pc = "done" /\ Len(doc) # 0
     /\ Cardinality(Occurrences(doc, anchor.exact)) > 1)
    => LET occ  == Occurrences(doc, anchor.exact)
           best == {i \in occ :
                      \A j \in occ : score(doc, anchor, PosAt(j))
                                       <= score(doc, anchor, PosAt(i))}
       IN  result = PosAt(SetMin(best))

\* C7: createAnchor returns exact = document[from:to],
\* prefix = document[max(0, from-32):from] and
\* suffix = document[to:min(len, to+32)]; prefix and suffix are at most 32
\* characters long, prefix is empty when from = 0 and suffix is empty when
\* to = len.
C7_CreateAnchorSlices ==
  pc # "idle"
    => LET d == origin.doc
           f == origin.from
           t == origin.to
       IN  /\ anchor.exact = SubSeq(d, f + 1, t)
           /\ anchor.prefix = SubSeq(d, (IF f > 32 THEN f - 32 ELSE 0) + 1, f)
           /\ anchor.suffix
                = SubSeq(d, t + 1, IF t + 32 < Len(d) THEN t + 32 ELSE Len(d))
           /\ Len(anchor.prefix) <= 32
           /\ Len(anchor.suffix) <= 32
           /\ (f = 0 => anchor.prefix = <<>>)
           /\ (t = Len(d) => anchor.suffix = <<>>)

\* C7 witness: an anchor created more than 32 characters into the document,
\* whose prefix is the 32 characters before the selection.
C7_Witness ==
  /\ pc = "anchored"
  /\ origin.from > 32
  /\ origin.to > origin.from
  /\ Len(anchor.prefix) = 32

\* The call createAnchor('Hello world, this is a test document.', 13, 17)
\* has been made.
HelloCall == pc # "idle" /\ origin = [doc |-> HelloDoc, from |-> 13, to |-> 17]

\* C8 as claimed: createAnchor(doc, 13, 17) on 'Hello world, this is a test
\* document.' returns {prefix: 'world, ', exact: 'this', suffix: ' is a'}.
C8_HelloAnchorAsClaimed ==
  HelloCall
    => anchor = [prefix |-> <<"w", "o", "r", "l", "d", ",", " ">>,
                 exact  |-> <<"t", "h", "i", "s">>,
                 suffix |-> <<" ", "i", "s", " ", "a">>]

\* C8 as amended: createAnchor(doc, 13, 17) on 'Hello world, this is a test
\* document.' returns {prefix: 'Hello world, ', exact: 'this',
\* suffix: ' is a test document.'}.
C8_HelloAnchor ==
  HelloCall
    => anchor = [prefix |-> <<"H", "e", "l", "l", "o", " ", "w", "o", "r",
                              "l", "d", ",", " ">>,
                 exact  |-> <<"t", "h", "i", "s">>,
                 suffix |-> <<" ", "i", "s", " ", "a", " ", "t", "e", "s",
                              "t", " ", "d", "o", "c", "u", "m", "e", "n",
                              "t", ".">>]

\* C8 witness: that anchor has been created and resolved in the same
\* document.
C8_Witness ==
  /\ HelloCall
  /\ pc = "done"
  /\ doc = HelloDoc
  /\ result = [from |-> 13, to |-> 17]

\* C9: when exact occurs several times and exactly one occurrence is
\* surrounded by text equal to the stored non-empty prefix and the stored
\* non-empty suffix, that occurrence is returned.
C9_FullContextWins ==
  (pc = "done" /\ Len(doc) # 0
     /\ anchor.prefix # <<>> /\ anchor.suffix # <<>>
     /\ Cardinality(Occurrences(doc, anchor.exact)) > 1
     /\ Cardinality({i \in Occurrences(doc, anchor.exact) : ContextMatches(i)})
          = 1)
    => \E i \in Occurrences(doc, anchor.exact) :
         ContextMatches(i) /\ result = PosAt(i)

\* C10: a position findAnchorPosition returns lies inside the document and
\* the text at it is exact.
C10_ResultIsExactInDoc ==
  (pc = "done" /\ result # Null)
    => /\ 0 <= result.from
       /\ result.from <= result.to
       /\ result.to <= Len(doc)
       /\ SubSeq(doc, result.from + 1, result.to) = anchor.exact

\* C10 witness: a position is returned in an edited document for an exact
\* text that holds a character special in regular expressions.
C10_Witness ==
  /\ pc = "done"
  /\ result # Null
  /\ doc # origin.doc
  /\ \E k \in 1..Len(anchor.exact) : anchor.exact[k] \in RegexSpecial

\* ------------------------------------------------- claims: history manager
Hist(f) == getHistory(histories, f)

HistAfter(f) == getHistory(histories', f)

\* The step is a createSnapshot call, made by the caller or by a tick.
SnapshotTaken ==
  \/ lastOp'.op = "createSnapshot"
  \/ lastOp'.op = "tick" /\ lastOp'.n = 1

\* C11: history invariant.  Every file history has
\* -1 <= currentIndex < snapshots.length, and currentIndex = -1 only without
\* snapshots.
C11_HistoryInvariant ==
  \A f \in Files :
    /\ -1 <= Hist(f).currentIndex
    /\ Hist(f).currentIndex < Len(Hist(f).snapshots)
    /\ (Hist(f).currentIndex = -1 => Hist(f).snapshots = <<>>)

\* C11 witness: after two undos a history of three snapshots points at its
\* first snapshot.
C11_Witness ==
  /\ lastOp.op = "undo"
  /\ lastOp.n = 1
  /\ Hist(lastOp.file).currentIndex = 0
  /\ Len(Hist(lastOp.file).snapshots) = 3

\* C12: branch truncation.  A createSnapshot called when currentIndex is not
\* at the tail leaves the snapshots up to the old currentIndex unchanged,
\* followed by the new snapshot alone; currentIndex points at it and redo
\* returns null.
C12_BranchTruncation ==
  [][(SnapshotTaken /\ canRedo(histories, lastOp'.file))
       => LET f    == lastOp'.file
              kept == Hist(f).currentIndex + 1
          IN  /\ Len(HistAfter(f).snapshots) = kept + 1
              /\ SubSeq(HistAfter(f).snapshots, 1, kept)
                   = SubSeq(Hist(f).snapshots, 1, kept)
              /\ HistAfter(f).snapshots[kept + 1].timestamp = now'
              /\ HistAfter(f).currentIndex = Len(HistAfter(f).snapshots) - 1
              /\ ~canRedo(histories', f)
              /\ redo(histories', f).ret = NullSnapshot]_vars

\* C12 witness: createSnapshot x3, undo, undo, createSnapshot: two snapshots
\* were discarded, the length is 2 and currentIndex is 1.
C12_Witness ==
  /\ lastOp.op = "createSnapshot"
  /\ lastOp.n = 2
  /\ Len(Hist(lastOp.file).snapshots) = 2
  /\ Hist(lastOp.file).currentIndex = 1

\* C13: monotonic append.  While createSnapshot is the only call made on a
\* file since its history was empty, the history holds the snapshots of the
\* N calls in call order and currentIndex = N - 1.
C13_MonotonicAppend ==
  \A f \in Files :
    run[f].clean
      => /\ Hist(f).snapshots = run[f].snaps
         /\ Len(Hist(f).snapshots) = Len(run[f].snaps)
         /\ Hist(f).currentIndex = Len(run[f].snaps) - 1

\* C13 witness: three createSnapshot calls in a row on one file.
C13_Witness ==
  \E f \in Files :
    /\ run[f].clean
    /\ Len(run[f].snaps) = 3
    /\ lastOp = [op |-> "createSnapshot", file |-> f, n |-> 0, tag |-> ""]

\* C14: boundary no-ops.  undo with currentIndex <= 0 (also for a file
\* without history) and redo with currentIndex >= snapshots.length - 1
\* return null and leave the snapshots and currentIndex as they were.
C14_BoundaryNoOps ==
  [][/\ (lastOp'.op = "undo" /\ Hist(lastOp'.file).currentIndex <= 0)
          => (ret' = NullSnapshot
                /\ HistAfter(lastOp'.file) = Hist(lastOp'.file))
     /\ (lastOp'.op = "redo"
           /\ Hist(lastOp'.file).currentIndex
                >= Len(Hist(lastOp'.file).snapshots) - 1)
          => (ret' = NullSnapshot
                /\ HistAfter(lastOp'.file) = Hist(lastOp'.file))]_vars

\* C14 witness: redo at the last of two snapshots returned null.
C14_Witness ==
  /\ lastOp.op = "redo"
  /\ lastOp.n = 0
  /\ ret = NullSnapshot
  /\ Len(Hist(lastOp.file).snapshots) = 2
  /\ Hist(lastOp.file).currentIndex = 1

\* C15: a successful undo moves currentIndex down by exactly 1 and returns
\* the snapshot then current, a successful redo moves it up by exactly 1 and
\* returns the snapshot then current; the snapshots stay as they are, and
\* the opposite call made next restores currentIndex and returns the
\* snapshot that was current before.
C15_OneStepBackAndForth ==
  [][/\ (lastOp'.op = "undo" /\ Hist(lastOp'.file).currentIndex > 0)
          => LET f == lastOp'.file
                 r == redo(histories', f)
             IN  /\ HistAfter(f).currentIndex = Hist(f).currentIndex - 1
                 /\ HistAfter(f).snapshots = Hist(f).snapshots
                 /\ ret' = Hist(f).snapshots[HistAfter(f).currentIndex + 1]
                 /\ getHistory(r.histories, f) = Hist(f)
                 /\ r.ret = Hist(f).snapshots[Hist(f).currentIndex + 1]
     /\ (lastOp'.op = "redo"
           /\ Hist(lastOp'.file).currentIndex
                < Len(Hist(lastOp'.file).snapshots) - 1)
          => LET f == lastOp'.file
                 u == undo(histories', f)
             IN  /\ HistAfter(f).currentIndex = Hist(f).currentIndex + 1
                 /\ HistAfter(f).snapshots = Hist(f).snapshots
                 /\ ret' = Hist(f).snapshots[HistAfter(f).currentIndex + 1]
                 /\ (Hist(f).currentIndex >= 0
                       => /\ getHistory(u.histories, f) = Hist(f)
                          /\ u.ret = Hist(f).snapshots[Hist(f).currentIndex + 1])
    ]_vars

\* C15 witness: an undo returned the second of three snapshots.
C15_Witness ==
  /\ lastOp.op = "undo"
  /\ lastOp.n = 1
  /\ Len(Hist(lastOp.file).snapshots) = 3
  /\ Hist(lastOp.file).currentIndex = 1
  /\ ret = Hist(lastOp.file).snapshots[2]

\* C16: file isolation.  createSnapshot, undo, redo and clearHistory on one
\* file path (and a tick for it) leave the snapshots, currentIndex, canUndo
\* and canRedo of every other file path unchanged.
C16_FileIsolation ==
  [][lastOp'.op \in {"createSnapshot", "undo", "redo", "clearHistory", "tick"}
       => \A g \in Files \ {lastOp'.file} :
            /\ HistAfter(g) = Hist(g)
            /\ canUndo(histories', g) = canUndo(histories, g)
            /\ canRedo(histories', g) = canRedo(histories, g)]_vars

\* C16 witness: the history of one file was cleared while the other file
\* can undo.
C16_Witness ==
  /\ lastOp.op = "clearHistory"
  /\ lastOp.n > 0
  /\ \E g \in Files \ {lastOp.file} : canUndo(histories, g)

\* C17 as claimed: a tick at which the accessor returns the same file path
\* and content as at the previous tick of the running timer appends nothing.
C17_RepeatedTickAsClaimed ==
  [][(lastOp'.op = "tick" /\ prevTick' = prevTick)
       => histories' = histories]_vars

\* C17 as amended: a tick at which the accessor returns the same file path
\* and content as at the previous tick of the running timer, with no
\* createSnapshot, clearHistory or clearAllHistories on that file in
\* between, appends no snapshot and leaves currentIndex unchanged.
C17_IdleTick ==
  [][(lastOp'.op = "tick" /\ prevTick' = prevTick /\ quiet)
       => histories' = histories]_vars

\* C17 witness: such a tick has fired and created nothing.
C17_Witness ==
  /\ lastOp.op = "tick"
  /\ lastOp.tag = "idle"
  /\ lastOp.n = 0
  /\ timer
  /\ Len(Hist(lastOp.file).snapshots) >= 1

\* A file path behaves as one without history.
BehavesAsEmpty(f) ==
  /\ ~canUndo(histories, f)
  /\ ~canRedo(histories, f)
  /\ undo(histories, f).ret = NullSnapshot
  /\ redo(histories, f).ret = NullSnapshot
  /\ \A c \in Contents, cur \in Cursors, scr \in Scrolls :
       LET h == getHistory(createSnapshot(histories, f,
                                          Snapshot(c, now + 1, cur, scr)), f)
       IN  Len(h.snapshots) = 1 /\ h.currentIndex = 0

\* C18: after clearHistory(filePath) the file behaves as Empty, and after
\* clearAllHistories every file does.
C18_ClearedIsEmpty ==
  /\ lastOp.op = "clearHistory" => BehavesAsEmpty(lastOp.file)
  /\ lastOp.op = "clearAllHistories" => \A f \in Files : BehavesAsEmpty(f)

\* C18 witness: a history of at least two snapshots was cleared.
C18_Witness ==
  /\ lastOp.op = "clearHistory"
  /\ lastOp.n >= 2
  /\ lastOp.file \notin DOMAIN histories

C20_AutosaveDrivesHistory ==
  /\ [][lastOp'.op = "toggleAutosave"
          => IF autosaveEnabled'
             THEN ~timer' /\ scheduled' = 0 /\ histories' = NoHistories
             ELSE timer' /\ scheduled' > 0]_vars
  /\ [](autosaveEnabled => histories = NoHistories)

\* --------------------------------------------- session store: the comments
\* Array.prototype.findIndex on the ids, 1-based: the first index whose
\* comment has the id, 0 (for JavaScript's -1 or undefined) when none has.
findIndex(list, id) ==
  IF \E i \in 1..Len(list) : list[i].id = id
  THEN SetMin({i \in 1..Len(list) : list[i].id = id})
  ELSE 0

\* Object.assign(target, source): every property of source is written over
\* target's.
ObjectAssign(target, source) ==
  [k \in DOMAIN target \cup DOMAIN source |->
     IF k \in DOMAIN source THEN source[k] ELSE target[k]]

\* Array.prototype.splice(index, 1), 1-based.
splice(list, index) ==
  SubSeq(list, 1, index - 1) \o SubSeq(list, index + 1, Len(list))

addCommentToSession_NoCheck(sd, comment) ==
  LET list == IF sd.comments.defined THEN sd.comments.list ELSE <<>>
  IN  [sessionData |->
         [sd EXCEPT !.comments =
            [defined |-> TRUE, list |-> Append(list, comment)]],
       ret |-> findIndex(list, comment.id) = 0]

\* addCommentToSession(sessionData, comment): the session object afterwards
\* and the value returned.
addCommentToSession(sd, comment) ==
  LET list == IF sd.comments.defined THEN sd.comments.list ELSE <<>>
  IN  IF findIndex(list, comment.id) # 0
      THEN [sessionData |->
              [sd EXCEPT !.comments = [defined |-> TRUE, list |-> list]],
            ret |-> FALSE]
      ELSE [sessionData |->
              [sd EXCEPT !.comments =
                 [defined |-> TRUE, list |-> Append(list, comment)]],
            ret |-> TRUE]

updateCommentInSession_All(sd, commentId, updates) ==
  IF ~sd.comments.defined \/ findIndex(sd.comments.list, commentId) = 0
  THEN [sessionData |-> sd, ret |-> FALSE]
  ELSE [sessionData |->
          [sd EXCEPT !.comments.list =
             [i \in 1..Len(sd.comments.list) |->
                ObjectAssign(sd.comments.list[i], updates)]],
        ret |-> TRUE]

updateCommentInSession(sd, commentId, updates) ==
  IF ~sd.comments.defined
  THEN [sessionData |-> sd, ret |-> FALSE]
  ELSE LET index == findIndex(sd.comments.list, commentId)
       IN  IF index = 0
           THEN [sessionData |-> sd, ret |-> FALSE]
           ELSE [sessionData |->
                   [sd EXCEPT !.comments.list[index] =
                      ObjectAssign(sd.comments.list[index], updates)],
                 ret |-> TRUE]

deleteCommentFromSession(sd, commentId) ==
  IF ~sd.comments.defined
  THEN [sessionData |-> sd, ret |-> FALSE]
  ELSE LET index == findIndex(sd.comments.list, commentId)
       IN  IF index = 0
           THEN [sessionData |-> sd, ret |-> FALSE]
           ELSE [sessionData |->
                   [sd EXCEPT !.comments.list = splice(@, index)],
                 ret |-> TRUE]

\* The session objects the comment functions are first called on: an empty
\* session, or one read from a file that has no comments property.
CommentStoreInit ==
  /\ AnchorIdle
  /\ HistoryInit
  /\ SessionFileIdle
  /\ UserIdle
  /\ AppInit
  /\ OllamaIdle
  /\ \E defined \in BOOLEAN :
       sessionData =
         [createEmptySession("root", 0) EXCEPT !.comments.defined = defined]
  /\ cret = FALSE
  /\ cLastOp = NoCommentOp

CommentFrame ==
  UNCHANGED <<avars, hvars, uvars, nvars, ovars, disk, appState, stime,
              sresult, sLastOp>>

AddComment(comment) ==
  /\ Len(sessionData.comments.list) < MaxComments
  /\ LET r == addCommentToSession(sessionData, comment)
     IN  /\ sessionData' = r.sessionData
         /\ cret' = r.ret
  /\ cLastOp' =
       [op |-> "add", id |-> comment.id, before |-> sessionData.comments]
  /\ CommentFrame

UpdateComment(commentId, updates) ==
  /\ LET r == updateCommentInSession(sessionData, commentId, updates)
     IN  /\ sessionData' = r.sessionData
         /\ cret' = r.ret
  /\ cLastOp' =
       [op |-> "update", id |-> commentId, before |-> sessionData.comments]
  /\ CommentFrame

DeleteComment(commentId) ==
  /\ LET r == deleteCommentFromSession(sessionData, commentId)
     IN  /\ sessionData' = r.sessionData
         /\ cret' = r.ret
  /\ cLastOp' =
       [op |-> "delete", id |-> commentId, before |-> sessionData.comments]
  /\ CommentFrame

CallAddComment == \E comment \in Comments : AddComment(comment)

CallUpdateComment ==
  \E commentId \in CommentIds, updates \in Updates :
    UpdateComment(commentId, updates)

CallDeleteComment == \E commentId \in CommentIds : DeleteComment(commentId)

CommentStoreNext ==
  \/ CallAddComment
  \/ CallUpdateComment
  \/ CallDeleteComment

CommentStoreSpec == CommentStoreInit /\ [][CommentStoreNext]_vars

\* ------------------------------------------- claims: the comments (C21-C24)
CommentList == sessionData.comments.list

\* C21: after any sequence of addCommentToSession, updateCommentInSession
\* (with any update object, also one that carries an id) and
\* deleteCommentFromSession, no two comments of sessionData.comments have
\* the same id.
C21_UniqueIds ==
  \A i, j \in 1..Len(CommentList) :
    CommentList[i].id = CommentList[j].id => i = j

\* C22: no add, update or delete changes the anchor of a comment that was
\* in the array before the call and still is after it.  An add and an update
\* keep every comment at its index; a delete moves the comments behind the
\* removed one down by one.
C22_AnchorImmutable ==
  [][LET old == sessionData.comments.list
         new == sessionData'.comments.list
     IN  /\ Len(new) >= Len(old) =>
              \A i \in 1..Len(old) : new[i].anchor = old[i].anchor
         /\ Len(new) < Len(old) =>
              \E k \in 1..Len(old) :
                \A i \in 1..Len(new) :
                  new[i].anchor = old[IF i < k THEN i ELSE i + 1].anchor
    ]_vars

\* C23: an add with an id that is present, and an update or a delete with an
\* id that is not present or on a session without a comments array, return
\* false and leave sessionData.comments as it was.
C23_FailedOpChangesNothing ==
  [][LET before == sessionData.comments
         present == before.defined
                    /\ \E i \in 1..Len(before.list) :
                         before.list[i].id = cLastOp'.id
     IN  /\ cLastOp'.op = "add" /\ present =>
              cret' = FALSE /\ sessionData'.comments = before
         /\ cLastOp'.op \in {"update", "delete"} /\ ~present =>
              cret' = FALSE /\ sessionData'.comments = before
         /\ cret' = FALSE => sessionData' = sessionData
    ]_vars

C23_Witness ==
  /\ cLastOp.op = "add"
  /\ cret = FALSE
  /\ Len(CommentList) = 2
  /\ cLastOp.before = sessionData.comments

\* C24: a successful delete removes one comment, which has the given id, and
\* keeps the others in their order; a successful update changes only the
\* comment found under the given id; a successful add appends the comment
\* and changes none of the others.
C24_OnlyTheTarget ==
  [][cret' = TRUE =>
       LET old == sessionData.comments.list
           new == sessionData'.comments.list
           index == findIndex(old, cLastOp'.id)
       IN  /\ cLastOp'.op = "delete" =>
                /\ index # 0
                /\ Len(new) = Len(old) - 1
                /\ \A i \in 1..Len(new) :
                     new[i] = old[IF i < index THEN i ELSE i + 1]
           /\ cLastOp'.op = "update" =>
                /\ index # 0
                /\ Len(new) = Len(old)
                /\ \A i \in 1..Len(old) : i # index => new[i] = old[i]
           /\ cLastOp'.op = "add" =>
                /\ Len(new) = Len(old) + 1
                /\ new[Len(new)].id = cLastOp'.id
                /\ \A i \in 1..Len(old) : new[i] = old[i]
    ]_vars

C24_Witness ==
  /\ cLastOp.op = "update"
  /\ cret = TRUE
  /\ Len(CommentList) = 3
  /\ findIndex(cLastOp.before.list, cLastOp.id) = 2
  /\ CommentList[2] # cLastOp.before.list[2]

\* ------------------------------------------------------------ user manager
\* String.prototype.trim on the names used here.
trim(name) == IF name = " " THEN "" ELSE name

getUserId_NoStore(storage, uuid) ==
  IF storage[USER_ID_KEY] = "null"
  THEN [localStorage |-> storage, ret |-> uuid, generated |-> TRUE]
  ELSE [localStorage |-> storage, ret |-> storage[USER_ID_KEY],
        generated |-> FALSE]

\* getUserId(), with uuid what crypto.randomUUID returns if it is called:
\* the storage afterwards, the id returned and whether randomUUID was called.
getUserId(storage, uuid) ==
  IF storage[USER_ID_KEY] = "null"
  THEN [localStorage |-> [storage EXCEPT ![USER_ID_KEY] = uuid],
        ret |-> uuid, generated |-> TRUE]
  ELSE [localStorage |-> storage, ret |-> storage[USER_ID_KEY],
        generated |-> FALSE]

setUserDisplayName(storage, name) ==
  IF name # "" /\ trim(name) # ""
  THEN [storage EXCEPT ![USER_NAME_KEY] = trim(name)]
  ELSE storage

clearUserData(storage) ==
  [storage EXCEPT ![USER_ID_KEY] = "null", ![USER_NAME_KEY] = "null"]

\* localStorage outlives the page: the user id of an earlier visit may be
\* stored when the page loads.
UserInit ==
  /\ AnchorIdle
  /\ HistoryInit
  /\ CommentStoreIdle
  /\ SessionFileIdle
  /\ AppInit
  /\ OllamaIdle
  /\ localStorage \in
       {[NoStorage EXCEPT ![USER_ID_KEY] = id] : id \in UUIDs \cup {"null"}}
  /\ uuidCalls = 0
  /\ seenIds = {}
  /\ uret = "null"
  /\ uLastOp = NoUserOp

UserFrame == UNCHANGED <<avars, hvars, svars, nvars, ovars>>

\* getUserId, isCurrentUser and getUserInfo all read the id through getUserId.
GetUserId(uuid) ==
  /\ LET r == getUserId(localStorage, uuid)
     IN  /\ localStorage' = r.localStorage
         /\ uret' = r.ret
         /\ uuidCalls' = IF r.generated THEN uuidCalls + 1 ELSE uuidCalls
         /\ seenIds' = seenIds \cup {r.ret}
  /\ uLastOp' = [op |-> "getUserId", afterClear |-> uLastOp.afterClear]
  /\ UserFrame

SetUserDisplayName(name) ==
  /\ localStorage' = setUserDisplayName(localStorage, name)
  /\ uLastOp' = [uLastOp EXCEPT !.op = "setUserDisplayName"]
  /\ UNCHANGED <<uuidCalls, seenIds, uret>>
  /\ UserFrame

ClearUserData ==
  /\ localStorage' = clearUserData(localStorage)
  /\ uuidCalls' = 0
  /\ seenIds' = {}
  /\ uLastOp' = [op |-> "clearUserData", afterClear |-> TRUE]
  /\ UNCHANGED uret
  /\ UserFrame

CallGetUserId == \E uuid \in UUIDs : GetUserId(uuid)

CallSetUserDisplayName == \E name \in DisplayNames : SetUserDisplayName(name)

UserNext ==
  \/ CallGetUserId
  \/ CallSetUserDisplayName
  \/ ClearUserData

UserSpec == UserInit /\ [][UserNext]_vars

\* ------------------------------------------------------------ claims: C27
\* C27: between two calls of clearUserData every getUserId returns the same
\* id, which is the value stored under hotnote_user_id, and
\* crypto.randomUUID is called at most once; the first getUserId after a
\* clearUserData calls randomUUID and stores and returns its result.
C27_UserIdStable ==
  /\ [](/\ uuidCalls <= 1
        /\ Cardinality(seenIds) <= 1
        /\ seenIds # {} => seenIds = {localStorage[USER_ID_KEY]})
  /\ [][uLastOp'.op = "getUserId" /\ uLastOp.op = "clearUserData" =>
          /\ uuidCalls' = 1
          /\ uret' \in UUIDs
          /\ localStorage'[USER_ID_KEY] = uret'
          /\ seenIds' = {uret'}]_vars

C27_Witness ==
  /\ uLastOp.op = "getUserId"
  /\ uLastOp.afterClear
  /\ uuidCalls = 1
  /\ uret # "null"
  /\ localStorage[USER_ID_KEY] = uret

\* ------------------------------------------ session store: the session file
\* What the file system does to one call is its fault: "none", or "handle",
\* "read" or "write" when getFileHandle, FileSystemAdapter.readFile or
\* FileSystemAdapter.writeFile rejects.

\* JSON.parse(JSON.stringify(sessionObject)): strings, numbers, booleans,
\* null, arrays and plain objects come back as they were; a property whose
\* value is undefined is left out.
JSONRoundTrip(sessionObject) ==
  [sessionObject EXCEPT
     !.comments = IF @.defined THEN @ ELSE [defined |-> FALSE, list |-> <<>>]]

\* The body of loadSessionFile's try block: what it returns, or Rejected when
\* a step throws: getFileHandle on a null handle (a TypeError), on a file that
\* is missing ({create: false}) or that the file system refuses; readFile;
\* JSON.parse of text that is not JSON.
loadSessionFile_Try(files, dirHandle, fault) ==
  IF \/ dirHandle = NoHandle
     \/ fault = "handle"
     \/ files[dirHandle].state = "missing"
     \/ fault = "read"
     \/ files[dirHandle].state = "invalid"
  THEN Rejected
  ELSE Resolved(files[dirHandle].data)

loadSessionFile_Rethrow(files, dirHandle, fault) ==
  loadSessionFile_Try(files, dirHandle, fault)

\* loadSessionFile(dirHandle): the catch turns every throw into null.
loadSessionFile(files, dirHandle, fault) ==
  LET r == loadSessionFile_Try(files, dirHandle, fault)
  IN  IF r.outcome = "rejected" THEN ResolvedNull ELSE r

\* The body of saveSessionFile's try block, with t what Date.now() returns:
\* the files afterwards and whether a step threw.  getFileHandle with
\* {create: true} creates the file, empty, when it is missing; a write that
\* fails leaves the content of the file as it was.
saveSessionFile_Try(files, dirHandle, sessionObject, t, fault) ==
  IF dirHandle = NoHandle \/ fault = "handle"
  THEN [disk |-> files, threw |-> TRUE]
  ELSE LET created ==
             IF files[dirHandle].state = "missing"
             THEN [files EXCEPT ![dirHandle] = InvalidFile]
             ELSE files
           content == JSONRoundTrip([sessionObject EXCEPT !.lastModified = t])
       IN  IF fault = "write"
           THEN [disk |-> created, threw |-> TRUE]
           ELSE [disk |-> [files EXCEPT ![dirHandle] = JsonFile(content)],
                 threw |-> FALSE]

\* saveSessionFile(dirHandle, sessionData): the files afterwards, how the
\* promise settles and whether the session file was written.  The catch logs
\* the error and returns.
saveSessionFile(files, dirHandle, sessionObject, t, fault) ==
  LET r == saveSessionFile_Try(files, dirHandle, sessionObject, t, fault)
  IN  [disk |-> r.disk, outcome |-> "resolved", wrote |-> ~r.threw]

\* saveEditorStateToSession blocks for RESTORE_BLOCK_MS after a restoration.
RESTORE_BLOCK_MS == 1000

\* The editor and the line of its cursor when the debounced save fires:
\* appState.editorManager (a markdown file), appState.editorView (CodeMirror)
\* or neither.
EditorStates == {<<"manager", 1>>, <<"view", 0>>, <<"none", 0>>}

\* session.lastOpenFile as saveEditorStateToSession builds it.
lastOpenFile(filePath, editorKind, cursorLine) ==
  [isNull |-> FALSE,
   path |-> filePath,
   cursorLine |-> IF editorKind = "none" THEN 0 ELSE cursorLine,
   cursorColumn |-> 0,
   scrollTop |-> 0,
   scrollLeft |-> 0,
   editorMode |-> IF editorKind = "manager" THEN "wysiwyg" ELSE "source"]

NotSaved(files) == [disk |-> files, outcome |-> "resolved", wrote |-> FALSE]

\* The guards at the head of saveEditorStateToSession.
saveIsSkipped(app, call) ==
  \/ call.blockSessionSave
  \/ /\ call.lastRestorationTime > 0
     /\ call.timeSinceRestoration < RESTORE_BLOCK_MS
  \/ app.currentDirHandle = NoHandle
  \/ app.currentFileHandle = NoHandle
  \/ call.filePath = NoHandle

saveEditorStateToSession_CurrentDir(files, app, call) ==
  IF saveIsSkipped(app, call)
  THEN NotSaved(files)
  ELSE LET loaded ==
             loadSessionFile(files, app.currentDirHandle, call.loadFault)
           sessionObject ==
             IF loaded.isNull
             THEN createEmptySession(DirName(app.currentDirHandle), call.now)
             ELSE loaded.data
       IN  saveSessionFile(files, app.currentDirHandle,
             [sessionObject EXCEPT !.session.lastOpenFile =
                lastOpenFile(call.filePath, call.editor, call.cursorLine)],
             call.now, call.saveFault)

\* saveEditorStateToSession(getRelativeFilePathFn).  call holds what the
\* environment answers during the call: window.blockSessionSave,
\* appState.lastRestorationTime and the time since then, what
\* getRelativeFilePathFn returns (NoHandle for null), the editor and its
\* cursor, Date.now() and the file-system faults.  The session is read from
\* appState.currentDirHandle and written to appState.rootDirHandle; a throw
\* inside the outer try is caught and logged.
saveEditorStateToSession(files, app, call) ==
  IF saveIsSkipped(app, call)
  THEN NotSaved(files)
  ELSE LET loaded ==
             loadSessionFile(files, app.currentDirHandle, call.loadFault)
           sessionObject ==
             IF loaded.isNull
             THEN createEmptySession(DirName(app.currentDirHandle), call.now)
             ELSE loaded.data
       IN  IF loaded.outcome = "rejected"
           THEN NotSaved(files)
           ELSE saveSessionFile(files, app.rootDirHandle,
                  [sessionObject EXCEPT !.session.lastOpenFile =
                     lastOpenFile(call.filePath, call.editor,
                                  call.cursorLine)],
                  call.now, call.saveFault)

\* The comments arrays of the session objects handed to saveSessionFile.
SampleComments ==
  {[defined |-> FALSE, list |-> <<>>],
   [defined |-> TRUE,
    list |-> <<[id |-> "c1", anchor |-> "A1", resolved |-> FALSE]>>]}

\* The session files are whatever an earlier run or another program left in
\* the two directories: nothing, or text that is not JSON.
SessionFileInit ==
  /\ AnchorIdle
  /\ HistoryInit
  /\ CommentStoreIdle
  /\ UserIdle
  /\ AppInit
  /\ OllamaIdle
  /\ disk \in [Dirs -> {MissingFile, InvalidFile}]
  /\ appState = NoAppState
  /\ stime = 0
  /\ sresult = ResolvedNull
  /\ sLastOp = NoSessionOp

SessionFileFrame ==
  UNCHANGED <<avars, hvars, uvars, nvars, ovars, sessionData, cret, cLastOp>>

FoundIn(dirHandle) ==
  IF dirHandle = NoHandle THEN "missing" ELSE disk[dirHandle].state

\* A millisecond passes.
TimePasses ==
  /\ stime < MaxSessionClock
  /\ stime' = stime + 1
  /\ UNCHANGED <<disk, appState, sresult, sLastOp>>
  /\ SessionFileFrame

\* The user opens the project folder: it is the root and the directory shown.
OpenProjectFolder ==
  /\ appState' = [currentDirHandle |-> RootDir, rootDirHandle |-> RootDir,
                  currentFileHandle |-> NoHandle]
  /\ sLastOp' = [NoSessionOp EXCEPT !.op = "openFolder"]
  /\ UNCHANGED <<disk, stime, sresult>>
  /\ SessionFileFrame

\* The user browses to a directory of the open project.
BrowseDirectory(dirHandle) ==
  /\ appState.rootDirHandle # NoHandle
  /\ appState' = [appState EXCEPT !.currentDirHandle = dirHandle,
                                  !.currentFileHandle = NoHandle]
  /\ sLastOp' = [NoSessionOp EXCEPT !.op = "navigateToDirectory"]
  /\ UNCHANGED <<disk, stime, sresult>>
  /\ SessionFileFrame

\* The user opens a file of the directory shown.
OpenSessionFile(fileHandle) ==
  /\ appState.currentDirHandle = DirOf(fileHandle)
  /\ appState' = [appState EXCEPT !.currentFileHandle = fileHandle]
  /\ sLastOp' = [NoSessionOp EXCEPT !.op = "openFile"]
  /\ UNCHANGED <<disk, stime, sresult>>
  /\ SessionFileFrame

LoadSessionFile(dirHandle, fault) ==
  /\ sresult' = loadSessionFile(disk, dirHandle, fault)
  /\ sLastOp' = [op |-> "loadSessionFile", dir |-> dirHandle,
                 loadFault |-> fault, fault |-> "none",
                 found |-> FoundIn(dirHandle), wrote |-> FALSE]
  /\ UNCHANGED <<disk, appState, stime>>
  /\ SessionFileFrame

SaveSessionFile(dirHandle, comments, fault) ==
  /\ LET sessionObject ==
           [createEmptySession(DirName(dirHandle), stime)
              EXCEPT !.comments = comments]
         r == saveSessionFile(disk, dirHandle, sessionObject, stime, fault)
     IN  /\ disk' = r.disk
         /\ sresult' = [ResolvedNull EXCEPT !.outcome = r.outcome]
         /\ sLastOp' = [op |-> "saveSessionFile", dir |-> dirHandle,
                        loadFault |-> "none", fault |-> fault,
                        found |-> FoundIn(dirHandle),
                        wrote |-> r.wrote]
  /\ UNCHANGED <<appState, stime>>
  /\ SessionFileFrame

SaveEditorState(call) ==
  /\ LET r == saveEditorStateToSession(disk, appState, call)
     IN  /\ disk' = r.disk
         /\ sresult' = [ResolvedNull EXCEPT !.outcome = r.outcome]
         /\ sLastOp' = [op |-> "saveEditorStateToSession",
                        dir |-> appState.currentDirHandle,
                        loadFault |-> call.loadFault,
                        fault |-> call.saveFault,
                        found |-> FoundIn(appState.rootDirHandle),
                        wrote |-> r.wrote]
  /\ UNCHANGED <<appState, stime>>
  /\ SessionFileFrame

CallBrowseDirectory == \E dirHandle \in Dirs : BrowseDirectory(dirHandle)

CallOpenSessionFile ==
  \E fileHandle \in SessionFiles : OpenSessionFile(fileHandle)

CallLoadSessionFile ==
  \E dirHandle \in Dirs \cup {NoHandle}, fault \in {"none", "handle", "read"} :
    LoadSessionFile(dirHandle, fault)

CallSaveSessionFile ==
  \E dirHandle \in Dirs, comments \in SampleComments,
     fault \in {"none", "handle", "write"} :
    SaveSessionFile(dirHandle, comments, fault)

\* The debounced save fires while a table-of-contents navigation blocks it
\* or less than a second after a restoration.
CallSaveEditorStateBlocked ==
  \E blocking \in {<<TRUE, 0, RESTORE_BLOCK_MS>>,
                   <<FALSE, 1, RESTORE_BLOCK_MS - 1>>} :
    SaveEditorState([blockSessionSave |-> blocking[1],
                     lastRestorationTime |-> blocking[2],
                     timeSinceRestoration |-> blocking[3],
                     filePath |-> appState.currentFileHandle,
                     editor |-> "view", cursorLine |-> 0, now |-> stime,
                     loadFault |-> "none", saveFault |-> "none"])

\* The debounced save fires and nothing blocks it.  getRelativeFilePathFn
\* returns the path of the open file, or null.
CallSaveEditorState ==
  \E restoration \in {<<0, RESTORE_BLOCK_MS - 1>>, <<1, RESTORE_BLOCK_MS>>},
     filePath \in {appState.currentFileHandle, NoHandle},
     editorState \in EditorStates,
     loadFault \in {"none", "read"}, saveFault \in {"none", "handle", "write"} :
    SaveEditorState([blockSessionSave |-> FALSE,
                     lastRestorationTime |-> restoration[1],
                     timeSinceRestoration |-> restoration[2],
                     filePath |-> filePath,
                     editor |-> editorState[1],
                     cursorLine |-> editorState[2],
                     now |-> stime,
                     loadFault |-> loadFault, saveFault |-> saveFault])

SessionFileNext ==
  \/ TimePasses
  \/ OpenProjectFolder
  \/ CallBrowseDirectory
  \/ CallOpenSessionFile
  \/ CallLoadSessionFile
  \/ CallSaveSessionFile
  \/ CallSaveEditorStateBlocked
  \/ CallSaveEditorState

SessionFileSpec == SessionFileInit /\ [][SessionFileNext]_vars

\* ---------------------------------- claims: the session file (C25, C26, C30)
\* C25: the promises of loadSessionFile and saveSessionFile never reject:
\* loadSessionFile resolves to null when the file is missing, cannot be read
\* or is not JSON, and saveSessionFile resolves when getFileHandle or the
\* write fails.
C25_SessionIONeverRejects ==
  [][/\ sLastOp'.op \in {"loadSessionFile", "saveSessionFile"} =>
          sresult'.outcome = "resolved"
     /\ /\ sLastOp'.op = "loadSessionFile"
        /\ \/ sLastOp'.found \in {"missing", "invalid"}
           \/ sLastOp'.loadFault \in {"handle", "read"}
        => sresult' = ResolvedNull
     /\ sLastOp'.op = "saveSessionFile" /\ sLastOp'.fault # "none" =>
          ~sLastOp'.wrote
    ]_vars

C25_Witness ==
  /\ sLastOp.op = "loadSessionFile"
  /\ sLastOp.found = "invalid"
  /\ sLastOp.loadFault = "none"
  /\ sresult = ResolvedNull

\* C26: saveEditorStateToSession never creates or writes the session file of
\* a subdirectory, whatever directory is shown; what it writes, it writes to
\* the root.
C26_SessionFileOnlyInRoot ==
  [][sLastOp'.op = "saveEditorStateToSession" =>
       /\ \A d \in Dirs \ {RootDir} : disk'[d] = disk[d]
       /\ sLastOp'.wrote => disk'[RootDir].state = "json"
    ]_vars

C26_Witness ==
  /\ sLastOp.op = "saveEditorStateToSession"
  /\ sLastOp.wrote
  /\ sLastOp.dir = SubDir
  /\ disk[SubDir] = MissingFile
  /\ disk[RootDir].state = "json"

\* C30: saveEditorStateToSession changes only session.lastOpenFile and
\* lastModified of the session stored in the root: the comments and the
\* other fields the root's session file held are still there afterwards,
\* also when the open file is in a subdirectory.  The claim is stated for the
\* calls during which no file-system call fails.
C30_OnlyLastOpenFileChanges ==
  [][/\ sLastOp'.op = "saveEditorStateToSession"
     /\ sLastOp'.loadFault = "none"
     /\ sLastOp'.fault = "none"
     /\ disk[RootDir].state = "json"
     =>
       /\ disk'[RootDir].state = "json"
       /\ disk'[RootDir].data.comments = disk[RootDir].data.comments
       /\ disk'[RootDir].data.version = disk[RootDir].data.version
       /\ disk'[RootDir].data.folderName = disk[RootDir].data.folderName
    ]_vars

\* ------------------------------------------------- navigation: the helpers
isMarkdownFile(filename) == filename = "b.md"

\* getFilePathKey() in a state with the given globals.
getFilePathKey(fileHandle, path, filename) ==
  IF fileHandle = NoHandle THEN NoKey ELSE <<path, filename>>

CurrentKey == getFilePathKey(currentFileHandle, currentPath, currentFilename)

\* loadTempChanges(key): localStorage.getItem of a key that was never set,
\* the key built from null included, is null.
loadTempChanges(storage, key) ==
  IF key \in PathKeys THEN storage[key] ELSE NullContent

\* clearTempChanges(key)
clearTempChanges(storage, key) ==
  IF key \in PathKeys THEN [storage EXCEPT ![key] = NullContent] ELSE storage

\* saveTempChanges() behind the test every handler puts before it:
\* if (isDirty && currentFileHandle) saveTempChanges().
saveTempChanges(storage) ==
  IF isDirty /\ currentFileHandle # NoHandle /\ CurrentKey \in PathKeys
  THEN [storage EXCEPT ![CurrentKey] = editor.content]
  ELSE storage

\* The editor initEditor(initialContent, filename) creates: Milkdown for a
\* markdown file in rich mode, CodeMirror otherwise.
newEditor(initialContent, filename, rich) ==
  [kind |-> IF isMarkdownFile(filename) /\ rich
            THEN "milkdown" ELSE "codemirror",
   content |-> initialContent]

\* The change listener of both editors: what it makes of isDirty and of the
\* temp storage when the text becomes currentContent.
onContentChange(currentContent, original, dirty, storage, key) ==
  IF currentContent = original
  THEN IF dirty
       THEN [isDirty |-> FALSE, tempStorage |-> clearTempChanges(storage, key)]
       ELSE [isDirty |-> dirty, tempStorage |-> storage]
  ELSE [isDirty |-> TRUE, tempStorage |-> storage]

\* What goBack, goForward and openFileFromPicker leave after
\* initEditor(fileContent, filename) and the restoring of the temp content:
\* CodeMirror gets the temp content dispatched into it, Milkdown is
\* initialised again, with the temp content, which makes it originalContent.
\* isDirty is false without temp content and true with it.
openedEditor(fileContent, filename, tempContent, rich) ==
  LET fresh == newEditor(fileContent, filename, rich)
  IN  IF tempContent = NullContent
      THEN [editor |-> fresh, originalContent |-> fileContent,
            isDirty |-> FALSE]
      ELSE IF fresh.kind = "codemirror"
           THEN [editor |-> [fresh EXCEPT !.content = tempContent],
                 originalContent |-> fileContent, isDirty |-> TRUE]
           ELSE [editor |-> newEditor(tempContent, filename, rich),
                 originalContent |-> tempContent, isDirty |-> TRUE]

\* A history entry that forgets the file.
HistoryEntry_NoFile(path, dirHandle, fileHandle, filename) ==
  [path |-> path, dirHandle |-> dirHandle, fileHandle |-> NoHandle,
   filename |-> ""]

\* The entry addToHistory pushes for a location.
HistoryEntry(path, dirHandle, fileHandle, filename) ==
  [path |-> path, dirHandle |-> dirHandle, fileHandle |-> fileHandle,
   filename |-> filename]

\* An addToHistory that pushes the entry and leaves historyIndex alone.
addToHistory_KeepIndex(history, index, entry) ==
  [navigationHistory |-> Append(SubSeq(history, 1, index + 1), entry),
   historyIndex |-> index]

\* An addToHistory that keeps the forward entries.
addToHistory_KeepForward(history, index, entry) ==
  [navigationHistory |-> Append(history, entry), historyIndex |-> Len(history)]

\* addToHistory(): navigationHistory and historyIndex afterwards.
addToHistory(history, index, entry) ==
  LET kept == SubSeq(history, 1, index + 1)
  IN  [navigationHistory |-> Append(kept, entry), historyIndex |-> Len(kept)]

\* An updateNavigationButtons that leaves the back button on at the first
\* entry.
updateNavigationButtons_BackAtFirst(index, history, path) ==
  [back |-> index < 0,
   forward |-> index >= Len(history) - 1,
   up |-> Len(path) = 0]

\* updateNavigationButtons(): the disabled property of the three buttons.
updateNavigationButtons(index, history, path) ==
  [back |-> index <= 0,
   forward |-> index >= Len(history) - 1,
   up |-> Len(path) = 0]

\* A handler that waits for file I/O: its name, the await it is at, the
\* file handle it called getFile or createWritable on, and the text it read
\* or is writing.
Task(op, at, fileHandle, content) ==
  [op |-> op, at |-> at, file |-> fileHandle, content |-> content]

RemoveTask(i) == SubSeq(tasks, 1, i - 1) \o SubSeq(tasks, i + 1, Len(tasks))

NavFrame == UNCHANGED <<avars, hvars, svars, uvars, ovars>>

\* ------------------------------------------------ navigation: the handlers
\* No handler is waiting for file I/O.
Idle == tasks = <<>>

\* The back and forward buttons answer a click while earlier handlers wait
\* for the content of a file, fewer than limit of them. The history stays
\* within its bound: a waiting openFileFromPicker will push an entry after
\* the entry the click moves to.
CanNavigate(limit, delta) ==
  /\ Len(tasks) < limit
  /\ \A i \in 1..Len(tasks) :
       /\ tasks[i].op \in {"goBack", "goForward", "openFileFromPicker"}
       /\ tasks[i].op = "openFileFromPicker" =>
            historyIndex + delta + 2 <= MaxHistory

\* addToHistory may push one more entry.
HistoryRoom == historyIndex + 2 <= MaxHistory

\* What openFolder (once the folder is picked), navigateToDirectory,
\* navigateToPathIndex and goFolderUp do up to their await of showFilePicker:
\* the temp content is saved, the directory becomes the location, the file is
\* closed, the editor is emptied and the location is added to the history.
enterDirectory(op, path, dirHandle) ==
  /\ Idle
  /\ HistoryRoom
  /\ tempStorage' = saveTempChanges(tempStorage)
  /\ currentPath' = path
  /\ currentDirHandle' = dirHandle
  /\ currentFileHandle' = NoHandle
  /\ currentFilename' = ""
  /\ editor' = newEditor("", "untitled", isRichMode)
  /\ originalContent' = ""
  /\ isDirty' = FALSE
  /\ LET h == addToHistory(navigationHistory, historyIndex,
                           HistoryEntry(path, dirHandle, NoHandle, ""))
     IN  /\ navigationHistory' = h.navigationHistory
         /\ historyIndex' = h.historyIndex
  /\ tasks' = Append(tasks, Task(op, "picker", NoHandle, ""))
  /\ nLastOp' = [op |-> op, step |-> "start", key |-> CurrentKey,
                 index |-> historyIndex, length |-> Len(navigationHistory)]
  /\ UNCHANGED <<isRichMode, diskFiles>>
  /\ buttons' = updateNavigationButtons(historyIndex', navigationHistory',
                                         currentPath')
  /\ NavFrame

\* openFolder(): the user picks the project folder.
openFolder == enterDirectory("openFolder", <<RootDir>>, RootDir)

\* openFolder(): the user closes the directory picker (an AbortError); the
\* temp content was saved before the picker opened.
openFolderAborted ==
  /\ Idle
  /\ tempStorage' = saveTempChanges(tempStorage)
  /\ nLastOp' = [op |-> "openFolder", step |-> "aborted", key |-> CurrentKey,
                 index |-> historyIndex, length |-> Len(navigationHistory)]
  /\ UNCHANGED <<currentPath, currentDirHandle, currentFileHandle,
                 currentFilename, navigationHistory, historyIndex, isDirty,
                 originalContent, isRichMode, editor, diskFiles, tasks>>
  /\ UNCHANGED buttons
  /\ NavFrame

\* navigateToDirectory(dirHandle): the user clicks a directory of the file
\* picker, which lists the directory shown.
navigateToDirectory(dirHandle) ==
  /\ currentDirHandle = RootDir
  /\ dirHandle = SubDir
  /\ enterDirectory("navigateToDirectory", Append(currentPath, dirHandle),
                    dirHandle)

\* navigateToPathIndex(index): the user clicks a breadcrumb.
navigateToPathIndex(index) ==
  /\ index < Len(currentPath)
  /\ enterDirectory("navigateToPathIndex", SubSeq(currentPath, 1, index + 1),
                    currentPath[index + 1])

\* goFolderUp() below the root folder.
goFolderUp ==
  /\ Len(currentPath) > 1
  /\ enterDirectory("goFolderUp", SubSeq(currentPath, 1, Len(currentPath) - 1),
                    currentPath[Len(currentPath) - 1])

\* showFilePicker has listed the directory: the handler ends.
pickerShown(i) ==
  /\ tasks[i].at = "picker"
  /\ tasks' = RemoveTask(i)
  /\ nLastOp' = [op |-> tasks[i].op, step |-> "done", key |-> CurrentKey,
                 index |-> historyIndex, length |-> Len(navigationHistory)]
  /\ UNCHANGED <<currentPath, currentDirHandle, currentFileHandle,
                 currentFilename, navigationHistory, historyIndex, isDirty,
                 originalContent, isRichMode, editor, tempStorage, diskFiles>>
  /\ buttons' = IF tasks[i].op \in {"goBack", "goForward"}
                THEN updateNavigationButtons(historyIndex, navigationHistory,
                                             currentPath)
                ELSE buttons
  /\ NavFrame

\* goBack() (delta = -1) and goForward() (delta = 1) up to their first await:
\* the temp content is saved, historyIndex moves and the location is set from
\* the history entry; for a file the handler waits for getFile, for a
\* directory it empties the editor and waits for showFilePicker.
navigate(op, delta, limit) ==
  /\ CanNavigate(limit, delta)
  /\ IF delta < 0 THEN historyIndex > 0
                  ELSE historyIndex < Len(navigationHistory) - 1
  /\ tempStorage' = saveTempChanges(tempStorage)
  /\ historyIndex' = historyIndex + delta
  /\ LET state == navigationHistory[historyIndex' + 1]
     IN  /\ currentPath' = state.path
         /\ currentDirHandle' = state.dirHandle
         /\ currentFileHandle' = state.fileHandle
         /\ currentFilename' = state.filename
         /\ IF state.fileHandle # NoHandle
            THEN /\ tasks' = Append(tasks, Task(op, "getFile",
                                                state.fileHandle, ""))
                 /\ UNCHANGED <<editor, originalContent, isDirty>>
            ELSE /\ editor' = newEditor("", "untitled", isRichMode)
                 /\ originalContent' = ""
                 /\ isDirty' = FALSE
                 /\ tasks' = IF state.dirHandle # NoHandle
                             THEN Append(tasks, Task(op, "picker",
                                                     NoHandle, ""))
                             ELSE tasks
  /\ nLastOp' = [op |-> op, step |-> "start", key |-> CurrentKey,
                 index |-> historyIndex, length |-> Len(navigationHistory)]
  /\ UNCHANGED <<navigationHistory, isRichMode, diskFiles>>
  /\ buttons' = IF currentFileHandle' = NoHandle /\ currentDirHandle' = NoHandle
                THEN updateNavigationButtons(historyIndex', navigationHistory,
                                             currentPath')
                ELSE buttons
  /\ NavFrame

\* goBack() at the first entry and goForward() at the last one return at once.
navigateRefused(op, delta) ==
  /\ Idle
  /\ IF delta < 0 THEN historyIndex <= 0
                  ELSE historyIndex >= Len(navigationHistory) - 1
  /\ nLastOp' = [op |-> op, step |-> "refused", key |-> CurrentKey,
                 index |-> historyIndex, length |-> Len(navigationHistory)]
  /\ UNCHANGED <<currentPath, currentDirHandle, currentFileHandle,
                 currentFilename, navigationHistory, historyIndex, isDirty,
                 originalContent, isRichMode, editor, tempStorage, diskFiles,
                 tasks>>
  /\ UNCHANGED buttons
  /\ NavFrame

\* getFile() resolves in goBack, goForward or openFileFromPicker: the handler
\* sets currentFilename to the name of the file it asked for (and
\* openFileFromPicker sets isRichMode) and waits for file.text().
gotFile(i) ==
  /\ tasks[i].at = "getFile"
  /\ currentFilename' = FileName(tasks[i].file)
  /\ isRichMode' = IF tasks[i].op = "openFileFromPicker"
                   THEN isMarkdownFile(FileName(tasks[i].file))
                   ELSE isRichMode
  /\ tasks' = [tasks EXCEPT ![i] = Task(tasks[i].op, "text", tasks[i].file,
                                        diskFiles[tasks[i].file])]
  /\ nLastOp' = [op |-> tasks[i].op, step |-> "getFile", key |-> CurrentKey,
                 index |-> historyIndex, length |-> Len(navigationHistory)]
  /\ UNCHANGED <<currentPath, currentDirHandle, currentFileHandle,
                 navigationHistory, historyIndex, isDirty, originalContent,
                 editor, tempStorage, diskFiles>>
  /\ UNCHANGED buttons
  /\ NavFrame

\* file.text() resolves in goBack or goForward: the key and the temp content
\* are read with the globals as they are now, the editor is initialised with
\* the file content and the temp content is restored; then the handler waits
\* for showFilePicker.
gotText(i) ==
  /\ tasks[i].at = "text"
  /\ tasks[i].op \in {"goBack", "goForward"}
  /\ LET tempContent == loadTempChanges(tempStorage, CurrentKey)
         rich == isMarkdownFile(currentFilename)
         opened == openedEditor(tasks[i].content, currentFilename,
                                tempContent, rich)
     IN  /\ isRichMode' = rich
         /\ editor' = opened.editor
         /\ originalContent' = opened.originalContent
         /\ isDirty' = opened.isDirty
  /\ tasks' = IF currentDirHandle # NoHandle
              THEN [tasks EXCEPT ![i] = Task(tasks[i].op, "picker",
                                             tasks[i].file, "")]
              ELSE RemoveTask(i)
  /\ nLastOp' = [op |-> tasks[i].op, step |-> "opened", key |-> CurrentKey,
                 index |-> historyIndex, length |-> Len(navigationHistory)]
  /\ UNCHANGED <<currentPath, currentDirHandle, currentFileHandle,
                 currentFilename, navigationHistory, historyIndex,
                 tempStorage, diskFiles>>
  /\ buttons' = IF currentDirHandle # NoHandle
                THEN buttons
                ELSE updateNavigationButtons(historyIndex, navigationHistory,
                                             currentPath)
  /\ NavFrame

\* openFileFromPicker(fileHandle) up to its await of getFile: the user clicks
\* a file of the file picker, which lists the directory shown.
openFileFromPicker(fileHandle) ==
  /\ Idle
  /\ HistoryRoom
  /\ currentDirHandle = ParentDir(fileHandle)
  /\ tempStorage' = saveTempChanges(tempStorage)
  /\ currentFileHandle' = fileHandle
  /\ tasks' = Append(tasks, Task("openFileFromPicker", "getFile",
                                 fileHandle, ""))
  /\ nLastOp' = [op |-> "openFileFromPicker", step |-> "start",
                 key |-> CurrentKey,
                 index |-> historyIndex, length |-> Len(navigationHistory)]
  /\ UNCHANGED <<currentPath, currentDirHandle, currentFilename,
                 navigationHistory, historyIndex, isDirty, originalContent,
                 isRichMode, editor, diskFiles>>
  /\ UNCHANGED buttons
  /\ NavFrame

\* file.text() resolves in openFileFromPicker: the rest of the handler.
openedFromPicker(i) ==
  /\ tasks[i].at = "text"
  /\ tasks[i].op = "openFileFromPicker"
  /\ LET tempContent == loadTempChanges(tempStorage, CurrentKey)
         opened == openedEditor(tasks[i].content, FileName(tasks[i].file),
                                tempContent, isRichMode)
         h == addToHistory(navigationHistory, historyIndex,
                HistoryEntry(currentPath, currentDirHandle,
                             currentFileHandle, currentFilename))
     IN  /\ editor' = opened.editor
         /\ originalContent' = opened.originalContent
         /\ isDirty' = opened.isDirty
         /\ navigationHistory' = h.navigationHistory
         /\ historyIndex' = h.historyIndex
  /\ tasks' = RemoveTask(i)
  /\ nLastOp' = [op |-> "openFileFromPicker", step |-> "opened",
                 key |-> CurrentKey,
                 index |-> historyIndex, length |-> Len(navigationHistory)]
  /\ UNCHANGED <<currentPath, currentDirHandle, currentFileHandle,
                 currentFilename, isRichMode, tempStorage, diskFiles>>
  /\ buttons' = updateNavigationButtons(historyIndex', navigationHistory',
                                         currentPath)
  /\ NavFrame

\* The handlers that wait, if any, wait for the write of a saveFile.
OnlyWrites == \A i \in 1..Len(tasks) : tasks[i].at = "write"

\* The user changes the text of the open file, also while a saveFile writes:
\* the change listener runs.
userEdits(content) ==
  /\ OnlyWrites
  /\ currentFileHandle # NoHandle
  /\ content # editor.content
  /\ editor' = [editor EXCEPT !.content = content]
  /\ LET r == onContentChange(content, originalContent, isDirty, tempStorage,
                              CurrentKey)
     IN  /\ isDirty' = r.isDirty
         /\ tempStorage' = r.tempStorage
  /\ nLastOp' = [op |-> "edit", step |-> "done", key |-> CurrentKey,
                 index |-> historyIndex, length |-> Len(navigationHistory)]
  /\ UNCHANGED <<currentPath, currentDirHandle, currentFileHandle,
                 currentFilename, navigationHistory, historyIndex,
                 originalContent, isRichMode, diskFiles, tasks>>
  /\ UNCHANGED buttons
  /\ NavFrame

\* saveFile() on an open file with unsaved changes, up to its await of the
\* write; without changes it returns at once.
saveFile ==
  /\ Idle
  /\ isDirty
  /\ currentFileHandle # NoHandle
  /\ tasks' = Append(tasks, Task("saveFile", "write", currentFileHandle,
                                 editor.content))
  /\ nLastOp' = [op |-> "saveFile", step |-> "start", key |-> CurrentKey,
                 index |-> historyIndex, length |-> Len(navigationHistory)]
  /\ UNCHANGED <<currentPath, currentDirHandle, currentFileHandle,
                 currentFilename, navigationHistory, historyIndex, isDirty,
                 originalContent, isRichMode, editor, tempStorage, diskFiles>>
  /\ UNCHANGED buttons
  /\ NavFrame

\* The write of saveFile succeeds: the rest of the handler.
written(i) ==
  /\ tasks[i].at = "write"
  /\ diskFiles' = [diskFiles EXCEPT ![tasks[i].file] = tasks[i].content]
  /\ isDirty' = FALSE
  /\ originalContent' = tasks[i].content
  /\ tempStorage' = clearTempChanges(tempStorage, CurrentKey)
  /\ tasks' = RemoveTask(i)
  /\ nLastOp' = [op |-> "saveFile", step |-> "written", key |-> CurrentKey,
                 index |-> historyIndex, length |-> Len(navigationHistory)]
  /\ UNCHANGED <<currentPath, currentDirHandle, currentFileHandle,
                 currentFilename, navigationHistory, historyIndex,
                 isRichMode, editor>>
  /\ UNCHANGED buttons
  /\ NavFrame

\* The write of saveFile fails: the error is shown and nothing is changed.
writeFailed(i) ==
  /\ tasks[i].at = "write"
  /\ tasks' = RemoveTask(i)
  /\ nLastOp' = [op |-> "saveFile", step |-> "failed", key |-> CurrentKey,
                 index |-> historyIndex, length |-> Len(navigationHistory)]
  /\ UNCHANGED <<currentPath, currentDirHandle, currentFileHandle,
                 currentFilename, navigationHistory, historyIndex, isDirty,
                 originalContent, isRichMode, editor, tempStorage, diskFiles>>
  /\ UNCHANGED buttons
  /\ NavFrame

\* toggleRichMode() on a markdown file: the mode is switched and the editor is
\* initialised again with the text it shows, which makes that text
\* originalContent and isDirty false. On another file it returns at once.
toggleRichMode ==
  /\ Idle
  /\ isMarkdownFile(currentFilename)
  /\ isRichMode' = ~isRichMode
  /\ editor' = newEditor(editor.content, currentFilename, isRichMode')
  /\ originalContent' = editor.content
  /\ isDirty' = FALSE
  /\ nLastOp' = [op |-> "toggleRichMode", step |-> "done", key |-> CurrentKey,
                 index |-> historyIndex, length |-> Len(navigationHistory)]
  /\ UNCHANGED <<currentPath, currentDirHandle, currentFileHandle,
                 currentFilename, navigationHistory, historyIndex,
                 tempStorage, diskFiles, tasks>>
  /\ UNCHANGED buttons
  /\ NavFrame

\* newFile(), the user agreeing when it asks (it asks when the CodeMirror
\* editor holds text): the file is closed without its text being kept, the
\* editor is emptied, the directory stays.
newFile ==
  /\ Idle
  /\ currentFileHandle' = NoHandle
  /\ currentFilename' = "untitled"
  /\ editor' = newEditor("", "untitled", isRichMode)
  /\ originalContent' = ""
  /\ isDirty' = FALSE
  /\ nLastOp' = [op |-> "newFile", step |-> "done", key |-> CurrentKey,
                 index |-> historyIndex, length |-> Len(navigationHistory)]
  /\ UNCHANGED <<currentPath, currentDirHandle, navigationHistory,
                 historyIndex, isRichMode, tempStorage, diskFiles, tasks>>
  /\ UNCHANGED buttons
  /\ NavFrame

\* newFile(), the user declining: nothing is changed.
newFileDeclined ==
  /\ Idle
  /\ editor.kind = "codemirror"
  /\ editor.content # ""
  /\ nLastOp' = [op |-> "newFile", step |-> "declined", key |-> CurrentKey,
                 index |-> historyIndex, length |-> Len(navigationHistory)]
  /\ UNCHANGED <<currentPath, currentDirHandle, currentFileHandle,
                 currentFilename, navigationHistory, historyIndex, isDirty,
                 originalContent, isRichMode, editor, tempStorage, diskFiles,
                 tasks>>
  /\ UNCHANGED buttons
  /\ NavFrame

\* A tick of a scheduled autosave interval: saveFile is called if isDirty is
\* true and a file is open, and runs up to its await of the write.
autosaveTick ==
  /\ autosaveScheduled > 0
  /\ Len(tasks) < MaxPending
  /\ LET saves == isDirty /\ currentFileHandle # NoHandle
     IN  /\ tasks' = IF saves
                     THEN Append(tasks, Task("saveFile", "write",
                                             currentFileHandle, editor.content))
                     ELSE tasks
         /\ nLastOp' = [op |-> "autosaveTick",
                        step |-> IF saves THEN "start" ELSE "skipped",
                        key |-> CurrentKey,
                 index |-> historyIndex, length |-> Len(navigationHistory)]
  /\ UNCHANGED <<currentPath, currentDirHandle, currentFileHandle,
                 currentFilename, navigationHistory, historyIndex, isDirty,
                 originalContent, isRichMode, editor, tempStorage, diskFiles,
                 buttons>>
  /\ NavFrame

\* ------------------------------------- navigation: one handler at a time
NavInit ==
  /\ AnchorIdle
  /\ HistoryInit
  /\ CommentStoreIdle
  /\ SessionFileIdle
  /\ UserIdle
  /\ AppInit
  /\ OllamaIdle

ClickDirectory == \E dirHandle \in Dirs : navigateToDirectory(dirHandle)

ClickBreadcrumb == \E index \in 0..1 : navigateToPathIndex(index)

ClickFile == \E fileHandle \in NavFiles : openFileFromPicker(fileHandle)

ClickBack == navigate("goBack", -1, 1)

ClickForward == navigate("goForward", 1, 1)

ClickBackDisabled == navigateRefused("goBack", -1)

ClickForwardDisabled == navigateRefused("goForward", 1)

Type == \E content \in EditContents \cup {originalContent} : userEdits(content)

GetFileResolves == \E i \in 1..Len(tasks) : gotFile(i)

TextResolves == \E i \in 1..Len(tasks) : gotText(i)

PickerTextResolves == \E i \in 1..Len(tasks) : openedFromPicker(i)

FilePickerShown == \E i \in 1..Len(tasks) : pickerShown(i)

WriteResolves == \E i \in 1..Len(tasks) : written(i)

WriteRejects == \E i \in 1..Len(tasks) : writeFailed(i)

NavNext ==
  \/ openFolder
  \/ openFolderAborted
  \/ ClickDirectory
  \/ ClickBreadcrumb
  \/ goFolderUp
  \/ ClickFile
  \/ ClickBack
  \/ ClickForward
  \/ ClickBackDisabled
  \/ ClickForwardDisabled
  \/ Type
  \/ saveFile
  \/ toggleRichMode
  \/ newFile
  \/ newFileDeclined
  \/ GetFileResolves
  \/ TextResolves
  \/ PickerTextResolves
  \/ FilePickerShown
  \/ WriteResolves
  \/ WriteRejects

NavSpec == NavInit /\ [][NavNext]_vars

\* ------------------------------- navigation: rapid back and forward clicks
\* The user opens the folder, directories and files and clicks back and
\* forward without waiting for the handler before: up to MaxPending handlers
\* wait for file I/O at once, and the I/O of any of them may complete first.
RapidClickBack == navigate("goBack", -1, MaxPending)

RapidClickForward == navigate("goForward", 1, MaxPending)

RapidNavNext ==
  \/ openFolder
  \/ ClickDirectory
  \/ ClickFile
  \/ RapidClickBack
  \/ RapidClickForward
  \/ GetFileResolves
  \/ TextResolves
  \/ PickerTextResolves
  \/ FilePickerShown

RapidNavSpec == NavInit /\ [][RapidNavNext]_vars

\* ------------------------------------------------- navigation: autosave
\* The user opens the folder and files, switches autosave on and off and
\* types, each text of EditContents at most once into a file that is open;
\* the autosave interval ticks while it is scheduled. The ticks looked at
\* are those that come while no file is being opened: they meet edits and
\* the writes of earlier ticks only.
EditRank(content) ==
  IF content = "e1" THEN 1 ELSE IF content = "e2" THEN 2 ELSE 0

TypeOnce ==
  \E content \in EditContents :
    /\ EditRank(content) > EditRank(editor.content)
    /\ userEdits(content)

AutosaveTick == OnlyWrites /\ autosaveTick

AutosaveNext ==
  \/ openFolder
  \/ FilePickerShown
  \/ ClickFile
  \/ GetFileResolves
  \/ PickerTextResolves
  \/ TypeOnce
  \/ AutosaveCheckbox
  \/ AutosaveTick
  \/ WriteResolves
  \/ WriteRejects

AutosaveSpec == NavInit /\ [][AutosaveNext]_vars

\* The interval keeps ticking while it is scheduled, file reads and the file
\* picker complete, and a write that is tried again and again succeeds.
AutosaveFairSpec ==
  /\ AutosaveSpec
  /\ WF_vars(AutosaveTick)
  /\ WF_vars(FilePickerShown)
  /\ WF_vars(GetFileResolves)
  /\ WF_vars(PickerTextResolves)
  /\ SF_vars(WriteResolves)

\* ------------------------------------------------------------ callOllama
\* src/services/ai-service.js callOllama(endpoint, model, prompt,
\* temperature, topP, timeout).  Time is counted in steps of the clock; the
\* timeout is a number of steps.  The timer callback runs as soon as its
\* time has come: time does not pass a pending timer that is due.
MaxTimeout == 3

MaxElapsed == 6

Timeouts == 1..MaxTimeout

\* Endpoints with and without trailing slashes.
Endpoints == {<<"h">>, <<"h", "/">>, <<"h", "/", "/">>}

\* endpoint.replace(/\/+$/, '')
RECURSIVE normalizedEndpoint(_)
normalizedEndpoint(endpoint) ==
  IF endpoint # <<>> /\ endpoint[Len(endpoint)] = "/"
  THEN normalizedEndpoint(SubSeq(endpoint, 1, Len(endpoint) - 1))
  ELSE endpoint

\* HTTP statuses the server answers with.
Statuses == {200, 404, 500}

\* The error callOllama throws for a response that is not ok.
StatusError(status) ==
  IF status = 404 THEN "Model not found" ELSE "Ollama API error"

TimeoutError == "Request timeout - Ollama server took too long to respond"

OllamaFrame == UNCHANGED <<avars, hvars, svars, uvars, nvars>>

\* The call: the controller is made, the timer is set and fetch is started.
CallOllama(endpoint, timeout) ==
  /\ opc \in {"idle", "returned", "rejected"}
  /\ request' = [endpoint |-> endpoint, timeout |-> timeout,
                 url |-> normalizedEndpoint(endpoint) \o <<"/api/generate">>]
  /\ opc' = "fetch"
  /\ elapsed' = 0
  /\ timeoutId' = TRUE
  /\ aborted' = FALSE
  /\ outcome' = "pending"
  /\ OllamaFrame

\* Time passes while the call waits.
RequestTimePasses ==
  /\ opc \in {"fetch", "json"}
  /\ elapsed < MaxElapsed
  /\ ~(timeoutId /\ elapsed >= request.timeout)
  /\ elapsed' = elapsed + 1
  /\ UNCHANGED <<request, opc, timeoutId, aborted, outcome>>
  /\ OllamaFrame

\* The timer callback: controller.abort().  A fetch that is pending rejects
\* with an AbortError, which the catch block turns into the timeout error.
TimerFires ==
  /\ timeoutId
  /\ elapsed >= request.timeout
  /\ timeoutId' = FALSE
  /\ aborted' = TRUE
  /\ IF opc = "fetch"
     THEN opc' = "rejected" /\ outcome' = TimeoutError
     ELSE UNCHANGED <<opc, outcome>>
  /\ UNCHANGED <<request, elapsed>>
  /\ OllamaFrame

\* The response headers arrive: fetch resolves and the timer is cleared;
\* a response that is not ok is thrown as an error, otherwise the body is
\* awaited.
FetchResolves(status) ==
  /\ opc = "fetch"
  /\ timeoutId' = FALSE
  /\ IF status = 200
     THEN opc' = "json" /\ UNCHANGED outcome
     ELSE opc' = "rejected" /\ outcome' = StatusError(status)
  /\ UNCHANGED <<request, elapsed, aborted>>
  /\ OllamaFrame

\* fetch rejects with a TypeError (server not reachable); the catch block
\* clears the timer and throws the connection error when the TypeError's
\* message contains 'fetch', and the TypeError itself otherwise.
FetchFails(messageHasFetch) ==
  /\ opc = "fetch"
  /\ timeoutId' = FALSE
  /\ opc' = "rejected"
  /\ outcome' = IF messageHasFetch THEN "Cannot connect to Ollama server"
                ELSE "TypeError"
  /\ UNCHANGED <<request, elapsed, aborted>>
  /\ OllamaFrame

\* The whole body has arrived and is JSON: data.response is returned.
JsonResolves ==
  /\ opc = "json"
  /\ opc' = "returned"
  /\ outcome' = "response"
  /\ UNCHANGED <<request, elapsed, timeoutId, aborted>>
  /\ OllamaFrame

\* The whole body has arrived and is not JSON: the SyntaxError is rethrown.
JsonRejects ==
  /\ opc = "json"
  /\ opc' = "rejected"
  /\ outcome' = "SyntaxError"
  /\ UNCHANGED <<request, elapsed, timeoutId, aborted>>
  /\ OllamaFrame

Call ==
  \E endpoint \in Endpoints, timeout \in Timeouts :
    CallOllama(endpoint, timeout)

HeadersArrive == \E status \in Statuses : FetchResolves(status)

ConnectionFails ==
  \E messageHasFetch \in BOOLEAN : FetchFails(messageHasFetch)

OllamaNext ==
  \/ Call
  \/ RequestTimePasses
  \/ TimerFires
  \/ HeadersArrive
  \/ ConnectionFails
  \/ JsonResolves
  \/ JsonRejects

OllamaInit == AnchorIdle /\ HistoryInit /\ RestIdle

OllamaSpec == OllamaInit /\ [][OllamaNext]_vars

\* ------------------------------------------ claims: navigation (C28, C29)
\* The entry historyIndex points at.
CurrentEntry == navigationHistory[historyIndex + 1]

\* C28: after overlapping back and forward clicks, once no navigation is
\* pending, currentPath, currentDirHandle, currentFileHandle, currentFilename
\* and the text in the editor are those of navigationHistory[historyIndex]:
\* the file's content for a file (nothing is edited here, so no temp content
\* exists), the empty text for a directory.
C28_SettlesOnCurrentEntry ==
  Idle /\ historyIndex >= 0 =>
    /\ currentPath = CurrentEntry.path
    /\ currentDirHandle = CurrentEntry.dirHandle
    /\ currentFileHandle = CurrentEntry.fileHandle
    /\ currentFilename = CurrentEntry.filename
    /\ editor.content = IF CurrentEntry.fileHandle = NoHandle
                        THEN ""
                        ELSE diskFiles[CurrentEntry.fileHandle]

\* A navigation away from the open file starts: openFileFromPicker, a
\* directory click, a breadcrumb, folder-up, back or forward.
LeavesFile ==
  /\ nLastOp'.step = "start"
  /\ nLastOp'.op # "saveFile"
  /\ currentFileHandle # NoHandle

\* Leaving a dirty file keeps its text as the temp content of the file.
LeavingKeepsEdits ==
  LeavesFile /\ isDirty /\ CurrentKey \in PathKeys =>
    tempStorage'[CurrentKey] = editor.content

\* Opening a file that has temp content shows the temp content, dirty.
ReturningShowsEdits ==
  nLastOp'.step = "opened" /\ nLastOp'.key \in PathKeys =>
    LET tempContent == tempStorage[nLastOp'.key]
    IN  tempContent # NullContent =>
          editor'.content = tempContent /\ isDirty'

\* The temp content of a file goes away only when a save of the file has
\* succeeded or when an edit has made the text the content of the file again.
TempRemovedOnlyBySaveOrOriginal ==
  \A key \in PathKeys :
    tempStorage[key] # NullContent /\ tempStorage'[key] = NullContent =>
      /\ nLastOp'.key = key
      /\ \/ nLastOp'.op = "saveFile" /\ nLastOp'.step = "written"
         \/ /\ nLastOp'.op = "edit"
            /\ editor'.content = diskFiles[currentFileHandle]

\* C29: unsaved edits survive navigation: leaving a dirty file stores its
\* text, returning to it shows the stored text with isDirty true, and the
\* stored text of a file is removed only by a successful save of the file or
\* by its text returning to the original, the content of the file.
C29_UnsavedEditsSurvive ==
  [][/\ LeavingKeepsEdits
     /\ ReturningShowsEdits
     /\ TempRemovedOnlyBySaveOrOriginal]_vars

\* historyIndex is -1 or the index of an entry.
HistoryIndexInRange ==
  /\ historyIndex >= -1
  /\ historyIndex < Len(navigationHistory)

\* C31: after any sequence of addToHistory, goBack and goForward, calls that
\* overlap while they wait for file I/O included,
\* -1 <= historyIndex < navigationHistory.length, and historyIndex is -1 only
\* while navigationHistory is empty.
C31_HistoryIndexInvariant ==
  /\ HistoryIndexInRange
  /\ historyIndex = -1 => navigationHistory = <<>>

\* A goBack has overtaken a handler that still waits, and has reached the
\* first entry of a history with forward entries.
C31_Witness ==
  /\ Len(tasks) = MaxPending
  /\ \E i \in 1..Len(tasks) : tasks[i].op = "openFileFromPicker"
  /\ nLastOp.op = "goBack"
  /\ historyIndex = 0
  /\ Len(navigationHistory) >= 3

\* The step runs addToHistory: a handler that enters a directory does so
\* before it waits for showFilePicker, openFileFromPicker at its end.
AddsToHistory ==
  \/ /\ nLastOp'.step = "start"
     /\ nLastOp'.op \in {"openFolder", "navigateToDirectory",
                         "navigateToPathIndex", "goFolderUp"}
  \/ nLastOp'.op = "openFileFromPicker" /\ nLastOp'.step = "opened"

\* The entries up to historyIndex are kept, the entries after it go and the
\* current location becomes the last entry, the one historyIndex names.
DiscardsForwardEntries ==
  AddsToHistory =>
    /\ navigationHistory' =
         Append(SubSeq(navigationHistory, 1, historyIndex + 1),
                HistoryEntry(currentPath', currentDirHandle',
                             currentFileHandle', currentFilename'))
    /\ historyIndex' = Len(navigationHistory') - 1

\* At the last entry goForward does nothing, and only a goBack leaves the
\* last entry.
ForwardWaitsForBack ==
  historyIndex = Len(navigationHistory) - 1 =>
    /\ nLastOp'.op = "goForward" /\ nLastOp'.step \in {"start", "refused"} =>
         /\ nLastOp'.step = "refused"
         /\ UNCHANGED <<navigationHistory, historyIndex, currentPath,
                        currentDirHandle, currentFileHandle, currentFilename,
                        editor>>
    /\ nLastOp'.op # "goBack" => historyIndex' = Len(navigationHistory') - 1

\* C32: addToHistory discards all forward entries: after it the new entry is
\* the last one, historyIndex = navigationHistory.length - 1, the entries at
\* the indices 0..old historyIndex are unchanged, and goForward is a no-op
\* until a goBack happens.
C32_AddToHistoryDiscardsForward ==
  [][DiscardsForwardEntries /\ ForwardWaitsForBack]_vars

\* A directory was entered from the middle of the history: forward entries
\* were there and are gone.
C32_Witness ==
  /\ nLastOp.op = "navigateToDirectory"
  /\ nLastOp.step = "start"
  /\ nLastOp.index >= 1
  /\ nLastOp.length > nLastOp.index + 1
  /\ Len(navigationHistory) = nLastOp.index + 2

\* With no handler waiting, the buttons are off exactly where goBack and
\* goForward would return at once.
ButtonsFollowHistory ==
  Idle =>
    /\ buttons.back = (historyIndex <= 0)
    /\ buttons.forward = (historyIndex >= Len(navigationHistory) - 1)

\* A goBack at the first entry (or with no entry) and a goForward at the last
\* one leave historyIndex and the location as they are.
DisabledNavigationDoesNothing ==
  /\ nLastOp'.step \in {"start", "refused"}
  /\ \/ nLastOp'.op = "goBack" /\ historyIndex <= 0
     \/ /\ nLastOp'.op = "goForward"
        /\ historyIndex >= Len(navigationHistory) - 1
  => UNCHANGED <<historyIndex, navigationHistory, currentPath,
                 currentDirHandle, currentFileHandle, currentFilename,
                 editor, isDirty, buttons>>

StepsByOne ==
  nLastOp'.op \in {"goBack", "goForward"} =>
    /\ navigationHistory' = navigationHistory
    /\ historyIndex' =
         IF nLastOp'.step # "start" THEN historyIndex
         ELSE IF nLastOp'.op = "goBack" THEN historyIndex - 1
         ELSE historyIndex + 1

\* A completed goBack or goForward has made the entry at historyIndex the
\* location.
LandsOnEntry ==
  /\ Idle
  /\ nLastOp.op \in {"goBack", "goForward"}
  /\ nLastOp.step \in {"opened", "done"}
  => /\ currentPath = CurrentEntry.path
     /\ currentDirHandle = CurrentEntry.dirHandle
     /\ currentFileHandle = CurrentEntry.fileHandle

\* Where a goBack can start, the location is the one the entry at
\* historyIndex records: the location a goBack and a goForward after it come
\* back to is the location they left.
StartsFromEntry ==
  Idle /\ historyIndex >= 1 =>
    /\ currentPath = CurrentEntry.path
    /\ currentDirHandle = CurrentEntry.dirHandle
    /\ currentFileHandle = CurrentEntry.fileHandle

\* The same, but for a file that newFile has closed.
StartsFromEntryOrNewFile ==
  Idle /\ historyIndex >= 1 =>
    /\ currentPath = CurrentEntry.path
    /\ currentDirHandle = CurrentEntry.dirHandle
    /\ \/ currentFileHandle = CurrentEntry.fileHandle
       \/ currentFileHandle = NoHandle /\ currentFilename = "untitled"

C35_DirtyFlagSound ==
  Idle /\ currentFileHandle # NoHandle =>
    /\ originalContent = diskFiles[currentFileHandle]
    /\ ~isDirty => editor.content = diskFiles[currentFileHandle]

\* The editor shows what the open file holds and isDirty is false.
Saved ==
  /\ currentFileHandle # NoHandle
  /\ ~isDirty
  /\ editor.content = diskFiles[currentFileHandle]

\* C36: with autosave enabled and a file open every edit is eventually
\* written to disk: also when the document was edited while a write of
\* saveFile was in flight, once the user has stopped editing a later autosave
\* tick writes the final content, ending with isDirty = false and the disk
\* content equal to the editor content.
C36_AutosaveWritesEveryEdit ==
  <>[](autosaveEnabled /\ currentFileHandle # NoHandle) => <>[](Idle /\ Saved)

\* At most one autosave interval is scheduled, and one is, with its handle
\* in autosaveInterval, exactly when the last toggle enabled autosave.
OneIntervalWhenEnabled ==
  /\ autosaveScheduled <= 1
  /\ autosaveScheduled = 1 <=> autosaveEnabled
  /\ autosaveInterval <=> autosaveEnabled

\* Switching autosave off when no interval runs changes no interval.
StopWithoutIntervalDoesNothing ==
  /\ hvars' # hvars
  /\ lastOp'.op = "toggleAutosave"
  /\ lastOp'.tag = "off"
  /\ ~autosaveInterval
  => UNCHANGED <<autosaveInterval, autosaveScheduled>>

\* A tick calls saveFile, which starts a write of the editor content to the
\* open file, only when isDirty is true and a file is open.
TickSavesOnlyDirtyFile ==
  nvars' # nvars /\ nLastOp'.op = "autosaveTick" =>
    IF isDirty /\ currentFileHandle # NoHandle
    THEN tasks' = Append(tasks, Task("saveFile", "write", currentFileHandle,
                                     editor.content))
    ELSE tasks' = tasks

\* C37: after any sequence of toggleAutosave(true/false) calls, with the
\* startAutosave and stopAutosave calls they make, at most one autosave
\* interval is active, one is active exactly when the last toggle enabled
\* autosave, stopAutosave with none running is a no-op, and a tick calls
\* saveFile only when isDirty is true and a file is open.
C37_OneAutosaveInterval ==
  /\ []OneIntervalWhenEnabled
  /\ [][StopWithoutIntervalDoesNothing /\ TickSavesOnlyDirtyFile]_vars

\* Autosave was enabled twice in a row and a tick of the one interval has
\* started a save.
C37_Witness ==
  /\ lastOp.op = "toggleAutosave"
  /\ lastOp.tag = "on"
  /\ autosaveScheduled = 1
  /\ nLastOp.op = "autosaveTick"
  /\ nLastOp.step = "start"

\* ------------------------------------------------ claims: history (C38)
\* The step is the first timer tick after a successful undo of the same
\* file, and the accessor returns the content of the snapshot undo returned.
TickAfterUndoApplied ==
  /\ lastOp.op = "undo"
  /\ lastOp.n = 1
  /\ lastOp'.op = "tick"
  /\ lastOp'.file = lastOp.file
  /\ prevTick'.content = ret.content

\* C38: a timer tick never destroys the redo history of an unedited
\* document: after undo returned a snapshot and the caller applied it, a
\* tick at which the accessor returns that snapshot's content appends
\* nothing, and redo still returns the next snapshot.
C38_TickKeepsRedo ==
  [][TickAfterUndoApplied =>
       /\ histories' = histories
       /\ redo(histories', lastOp.file).ret = redo(histories, lastOp.file).ret
    ]_vars

\* ------------------------------------------------- claims: scoring (C39)
\* The text after the occurrence at index i starts with the stored suffix.
FollowedBySuffix(i) ==
  LET to == i + Len(anchor.exact)
  IN  StartsWith(Substring(doc, to, Min(Len(doc), to + CONTEXT_LENGTH)),
                 anchor.suffix)

\* Twice the score of an exact suffix match without any prefix match.
ExactSuffixScore ==
  score(<<"x", "s">>, [prefix |-> <<>>, exact |-> <<"x">>, suffix |-> <<"s">>],
        [from |-> 0, to |-> 1])

Rep(c, n) == [k \in 1..n |-> c]

\* An anchor with a prefix and a suffix of CONTEXT_LENGTH characters, and
\* the documents in which its exact text occurs twice: at index 0 followed
\* by the stored suffix and without the prefix, and later after the whole
\* stored prefix and followed by the first n characters of the suffix only.
LongAnchor ==
  [prefix |-> Rep("p", CONTEXT_LENGTH),
   exact  |-> <<"x">>,
   suffix |-> Rep("s", CONTEXT_LENGTH - 1) \o <<"t">>]

NearMissDoc(n) ==
  <<"x">> \o LongAnchor.suffix \o LongAnchor.prefix \o <<"x">>
    \o Rep("s", n) \o <<"u">>

NearMissPos == [from |-> 1 + 2 * CONTEXT_LENGTH, to |-> 2 + 2 * CONTEXT_LENGTH]

\* With contexts of full length, the occurrence that has the exact prefix
\* and all but the last character of the suffix scores less than the one
\* that has the exact suffix only.
LongestNearMissStaysBelow ==
  \A n \in 0..CONTEXT_LENGTH :
    /\ score(NearMissDoc(n), LongAnchor, NearMissPos) < ExactSuffixScore
    /\ score(NearMissDoc(n), LongAnchor, [from |-> 0, to |-> 1])
         = ExactSuffixScore

\* C39: the suffix dominates the prefix: with a non-empty stored suffix, an
\* occurrence of anchor.exact whose following text starts with the suffix
\* has a higher score than every occurrence whose following text does not,
\* whatever their prefix matches are; the score of an occurrence without
\* the exact suffix stays below that of an exact suffix match (100).  The
\* first conjunct is about the scoring function alone and is evaluated in
\* the initial states; the second is about the occurrences of every call
\* of findAnchorPosition that has returned.
C39_SuffixDominatesPrefix ==
  /\ pc = "idle" => LongestNearMissStaysBelow
  /\ (pc = "done" /\ anchor.suffix # <<>>) =>
       LET occ      == Occurrences(doc, anchor.exact)
           followed == {i \in occ : FollowedBySuffix(i)}
       IN  followed # {} =>
             \A j \in occ \ followed :
               /\ score(doc, anchor, PosAt(j)) < ExactSuffixScore
               /\ \A i \in followed :
                    score(doc, anchor, PosAt(j)) < score(doc, anchor, PosAt(i))

\* C39 witness: findAnchorPosition has returned the occurrence followed by
\* the stored suffix, which has no prefix match, and not another occurrence
\* that has the exact prefix before it.
C39_Witness ==
  /\ pc = "done"
  /\ anchor.suffix # <<>>
  /\ anchor.prefix # <<>>
  /\ \E k, l \in 1..Len(matches) :
       /\ FollowedBySuffix(matches[k].from)
       /\ ~FollowedBySuffix(matches[l].from)
       /\ score(doc, anchor, matches[k]) = ExactSuffixScore
       /\ score(doc, anchor, matches[l]) * 2 >= ExactSuffixScore
       /\ result = matches[k]

\* --------------------------------------------- claims: callOllama (C40)
\* C40: callOllama enforces its timeout on the whole request: a call whose
\* response (headers and body) has not completely arrived within `timeout`
\* of the call does not stay pending, it has rejected with the timeout
\* error.
C40_TimeoutCoversWholeRequest ==
  /\ opc \in {"fetch", "json"} => elapsed <= request.timeout
  /\ (opc = "rejected" /\ aborted) => outcome = TimeoutError

====
